---- MODULE Spec2Model ----
\* Model of the documentation crawler (src/crawl_all.py): the link
\* classifier, the fetch strategy, the recursive crawl and the run that
\* writes the corpus.  Strings are sequences of one-character strings, so
\* that prefix tests, substring tests and URL resolution are computed and
\* not assumed.
EXTENDS Integers, Sequences, FiniteSets, TLC

\* Python's None and a present value x, kept apart from it
None == <<>>
Some(x) == <<x>>

\* ---------------------------------------------------------------------
\* Strings
\* ---------------------------------------------------------------------

\* str.startswith
StartsWith(s, p) == Len(p) <= Len(s) /\ SubSeq(s, 1, Len(p)) = p

\* sub in s
Contains(s, sub) ==
    \E i \in 1..(Len(s) - Len(sub) + 1) : SubSeq(s, i, i + Len(sub) - 1) = sub

\* index of the first character of s, at or after position from, that is
\* in chars; Len(s) + 1 when there is none
FindFirst(s, chars, from) ==
    LET hits == {i \in from..Len(s) : s[i] \in chars}
    IN  IF hits = {} THEN Len(s) + 1
        ELSE CHOOSE i \in hits : \A j \in hits : i <= j

Drop(s, n) == SubSeq(s, n + 1, Len(s))
Take(s, n) == SubSeq(s, 1, n)

\* str.split(sep) for a one-character separator: a sequence of strings
RECURSIVE Split(_, _)
Split(s, sep) ==
    LET i == FindFirst(s, {sep}, 1)
    IN  IF i > Len(s) THEN <<s>>
        ELSE <<Take(s, i - 1)>> \o Split(Drop(s, i), sep)

\* sep.join(parts)
RECURSIVE Join(_, _)
Join(parts, sep) ==
    IF parts = <<>> THEN <<>>
    ELSE IF Len(parts) = 1 THEN parts[1]
    ELSE parts[1] \o <<sep>> \o Join(Tail(parts), sep)

Letters == {"a", "b", "c", "d", "e", "f", "g", "h", "i", "j", "k", "l", "m",
            "n", "o", "p", "q", "r", "s", "t", "u", "v", "w", "x", "y", "z"}
SchemeChars == Letters \cup {"+", "-", "."}

S_http == <<"h", "t", "t", "p">>
S_https == <<"h", "t", "t", "p", "s">>
S_mailto == <<"m", "a", "i", "l", "t", "o", ":">>
S_javascript == <<"j", "a", "v", "a", "s", "c", "r", "i", "p", "t", ":">>
S_dot == <<".">>
S_dotdot == <<".", ".">>

\* schemes of urllib.parse.uses_relative and uses_netloc that occur here
\* (the empty scheme is in both lists)
UsesRelative == {S_http, S_https, <<>>}
UsesNetloc == {S_http, S_https, <<>>}

\* urllib.parse.urlsplit, its last step: the query is what follows the
\* first "?" of what is left, the path what precedes it
SplitQuery(scheme, netloc, r, fragment, qm) ==
    [scheme |-> scheme, netloc |-> netloc, path |-> Take(r, qm - 1),
     query |-> Drop(r, qm), fragment |-> fragment]

\* the fragment is what follows the first "#"
SplitFragment(scheme, netloc, r, hash) ==
    SplitQuery(scheme, netloc, Take(r, hash - 1), Drop(r, hash),
               FindFirst(Take(r, hash - 1), {"?"}, 1))

\* the netloc is what follows a leading "//", up to the next "/", "?" or
\* "#" at position delim; delim is 0 when there is no leading "//"
SplitNetloc(scheme, r, delim) ==
    SplitFragment(scheme,
                  IF delim = 0 THEN <<>> ELSE SubSeq(r, 3, delim - 1),
                  IF delim = 0 THEN r ELSE Drop(r, delim - 1),
                  FindFirst(IF delim = 0 THEN r ELSE Drop(r, delim - 1),
                            {"#"}, 1))

NetlocEnd(r) ==
    IF StartsWith(r, <<"/", "/">>) THEN FindFirst(r, {"/", "?", "#"}, 3) ELSE 0

\* the scheme is what precedes the first ":" at position colon, when it
\* begins with a letter and consists of scheme characters
HasScheme(url, colon) ==
    /\ colon <= Len(url)
    /\ colon > 1
    /\ url[1] \in Letters
    /\ \A i \in 1..(colon - 1) : url[i] \in SchemeChars

SplitScheme(url, colon) ==
    SplitNetloc(IF HasScheme(url, colon) THEN Take(url, colon - 1) ELSE <<>>,
                IF HasScheme(url, colon) THEN Drop(url, colon) ELSE url,
                NetlocEnd(IF HasScheme(url, colon) THEN Drop(url, colon)
                          ELSE url))

\* urllib.parse.urlsplit: scheme, netloc, path, query, fragment
urlparse(url) == SplitScheme(url, FindFirst(url, {":"}, 1))

AddFragment(u, fragment) ==
    IF fragment # <<>> THEN u \o <<"#">> \o fragment ELSE u

AddQuery(u, query, fragment) ==
    AddFragment(IF query # <<>> THEN u \o <<"?">> \o query ELSE u, fragment)

AddScheme(u, scheme, query, fragment) ==
    AddQuery(IF scheme # <<>> THEN scheme \o <<":">> \o u ELSE u, query,
             fragment)

\* urllib.parse.urlunsplit
urlunparse(p) ==
    AddScheme(IF p.netloc # <<>>
                 \/ (p.scheme # <<>> /\ p.scheme \in UsesNetloc
                     /\ ~StartsWith(p.path, <<"/", "/">>))
              THEN <<"/", "/">> \o p.netloc \o
                   (IF p.path # <<>> /\ p.path[1] # "/"
                    THEN <<"/">> \o p.path ELSE p.path)
              ELSE p.path,
              p.scheme, p.query, p.fragment)

\* the middle segments of a relative reference lose their empty members
RECURSIVE DropEmptyMiddle(_, _)
DropEmptyMiddle(segs, i) ==
    IF i > Len(segs) THEN <<>>
    ELSE (IF i > 1 /\ i < Len(segs) /\ segs[i] = <<>> THEN <<>>
          ELSE <<segs[i]>>) \o DropEmptyMiddle(segs, i + 1)

\* removal of the "." and ".." segments
RECURSIVE ResolveDots(_, _)
ResolveDots(segs, acc) ==
    IF segs = <<>> THEN acc
    ELSE ResolveDots(Tail(segs),
             IF Head(segs) = S_dotdot
             THEN (IF acc = <<>> THEN acc ELSE Take(acc, Len(acc) - 1))
             ELSE IF Head(segs) = S_dot THEN acc
             ELSE Append(acc, Head(segs)))

\* the segments of the base path without its last, non-empty one
BaseParts(bp0) ==
    IF bp0[Len(bp0)] # <<>> THEN Take(bp0, Len(bp0) - 1) ELSE bp0

\* the resolved segments joined, with a trailing "/" after a final dot
\* segment, and "/" for an empty result
JoinResolved(segments, resolved) ==
    IF Join(IF segments[Len(segments)] \in {S_dot, S_dotdot}
            THEN Append(resolved, <<>>) ELSE resolved, "/") = <<>>
    THEN <<"/">>
    ELSE Join(IF segments[Len(segments)] \in {S_dot, S_dotdot}
              THEN Append(resolved, <<>>) ELSE resolved, "/")

ResolveSegments(segments) ==
    JoinResolved(segments, ResolveDots(segments, <<>>))

\* the path of the reference merged with the path of the base
MergePaths(bpath, path) ==
    ResolveSegments(IF path[1] = "/" THEN Split(path, "/")
                    ELSE DropEmptyMiddle(BaseParts(Split(bpath, "/"))
                                         \o Split(path, "/"), 1))

\* urljoin once base and reference are parsed, the reference with the
\* scheme of the base when it has none
JoinParsed(url, b, u) ==
    IF u.scheme # b.scheme \/ u.scheme \notin UsesRelative THEN url
    ELSE urlunparse(
             IF u.scheme \in UsesNetloc /\ u.netloc # <<>> THEN u
             ELSE IF u.path = <<>>
             THEN [u EXCEPT !.netloc = b.netloc, !.path = b.path,
                            !.query = IF u.query = <<>> THEN b.query
                                      ELSE u.query]
             ELSE [u EXCEPT !.netloc = b.netloc,
                            !.path = MergePaths(b.path, u.path)])

WithDefaultScheme(u0, scheme) ==
    IF u0.scheme = <<>> THEN [u0 EXCEPT !.scheme = scheme] ELSE u0

JoinWithBase(url, b) ==
    JoinParsed(url, b, WithDefaultScheme(urlparse(url), b.scheme))

\* urllib.parse.urljoin
urljoin(base, url) ==
    IF base = <<>> THEN url
    ELSE IF url = <<>> THEN base
    ELSE JoinWithBase(url, urlparse(base))

\* ---------------------------------------------------------------------
\* String inputs
\* ---------------------------------------------------------------------

\* "https://example.com"
BaseUrl ==
    <<"h", "t", "t", "p", "s", ":", "/", "/", "e", "x", "a", "m", "p", "l",
      "e", ".", "c", "o", "m">>
\* "/docs/"
StartPath == <<"/", "d", "o", "c", "s", "/">>
\* "/api/x"
SeedPath == <<"/", "a", "p", "i", "/", "x">>
\* ""
H_empty == <<>>
\* "#section"
H_frag == <<"#", "s", "e", "c", "t", "i", "o", "n">>
\* "mailto:x@y.com"
H_mailto ==
    <<"m", "a", "i", "l", "t", "o", ":", "x", "@", "y", ".", "c", "o", "m">>
\* "javascript:f()"
H_js ==
    <<"j", "a", "v", "a", "s", "c", "r", "i", "p", "t", ":", "f", "(", ")">>
\* "/docs/a"
H_a == <<"/", "d", "o", "c", "s", "/", "a">>
\* "/docs/b"
H_b == <<"/", "d", "o", "c", "s", "/", "b">>
\* "/docs/c"
H_c == <<"/", "d", "o", "c", "s", "/", "c">>
\* "/other/c"
H_other == <<"/", "o", "t", "h", "e", "r", "/", "c">>
\* "/docs/"
H_root == <<"/", "d", "o", "c", "s", "/">>
\* "https://example.com/docs/a"
H_abs_a ==
    <<"h", "t", "t", "p", "s", ":", "/", "/", "e", "x", "a", "m", "p", "l",
      "e", ".", "c", "o", "m", "/", "d", "o", "c", "s", "/", "a">>
\* "https://other.com/docs/a"
H_off ==
    <<"h", "t", "t", "p", "s", ":", "/", "/", "o", "t", "h", "e", "r", ".",
      "c", "o", "m", "/", "d", "o", "c", "s", "/", "a">>
\* "//other.com/docs/a"
H_netoff ==
    <<"/", "/", "o", "t", "h", "e", "r", ".", "c", "o", "m", "/", "d", "o",
      "c", "s", "/", "a">>
\* "a"
H_rel == <<"a">>
\* "docs/a"
H_rel_docs == <<"d", "o", "c", "s", "/", "a">>
\* "/docs/../other/c"
H_dots ==
    <<"/", "d", "o", "c", "s", "/", ".", ".", "/", "o", "t", "h", "e", "r",
      "/", "c">>
\* "/docs/a?q=mailto:x"
H_query ==
    <<"/", "d", "o", "c", "s", "/", "a", "?", "q", "=", "m", "a", "i", "l",
      "t", "o", ":", "x">>
\* "/docs/a#top"
H_afrag == <<"/", "d", "o", "c", "s", "/", "a", "#", "t", "o", "p">>
\* "/api/x"
H_api == <<"/", "a", "p", "i", "/", "x">>
\* "/api/x/y"
H_api_y == <<"/", "a", "p", "i", "/", "x", "/", "y">>
\* "/docs"
H_nodir == <<"/", "d", "o", "c", "s">>
\* "http://example.com/docs/a"
H_http ==
    <<"h", "t", "t", "p", ":", "/", "/", "e", "x", "a", "m", "p", "l", "e",
      ".", "c", "o", "m", "/", "d", "o", "c", "s", "/", "a">>
\* " T "
T_padded == <<" ", "T", " ">>
\* "T"
T_plain == <<"T">>
\* "D"
D_text == <<"D">>
\* "main", "article", "body"
S_main == <<"m", "a", "i", "n">>
S_article == <<"a", "r", "t", "i", "c", "l", "e">>
S_body == <<"b", "o", "d", "y">>
\* "main, article"
Sel_main_article ==
    <<"m", "a", "i", "n", ",", " ", "a", "r", "t", "i", "c", "l", "e">>
\* "https://example.com:8/docs/a"
H_port ==
    <<"h", "t", "t", "p", "s", ":", "/", "/", "e", "x", "a", "m", "p", "l",
      "e", ".", "c", "o", "m", ":", "8", "/", "d", "o", "c", "s", "/", "a">>
\* "https://u@example.com/docs/a"
H_user ==
    <<"h", "t", "t", "p", "s", ":", "/", "/", "u", "@", "e", "x", "a", "m",
      "p", "l", "e", ".", "c", "o", "m", "/", "d", "o", "c", "s", "/", "a">>

\* ---------------------------------------------------------------------
\* State
\* ---------------------------------------------------------------------

VARIABLES
    cfg,         \* the constructor's arguments (base_url, start_path, ...)
    site,        \* the web site: the markup served at each URL
    visited,     \* self.visited
    docs,        \* self.docs
    page_count,  \* self.page_count
    driver,      \* self.driver: None, or the rendering engine
    engineLog,   \* what was done with rendering engines: create, get, quit
    stack,       \* the active crawl() calls, innermost last
    phase,       \* the position of run()
    seedIdx,     \* additional_paths already taken by the loop of run()
    error,       \* an exception is propagating out of the try block of run()
    outfile,     \* the content of output_file, None while unwritten
    fetched,     \* the URLs passed to get_page_content, in order
    failed,      \* the URLs for which get_page_content returned None
    skipped,     \* the URLs fetched whose content region was too short
    last,        \* what the latest get_page_content call did
    href,        \* the argument of the latest is_valid_link call
    verdict,     \* its result
    argv,        \* the options given on the command line
    args,        \* the namespace parse_args returns
    config,      \* the config dict of __main__
    crawler,     \* the fields of the APIDocCrawler that __main__ creates
    mainpc,      \* the position of __main__
    mtime,       \* the modification time of output_file, 0 while absent
    docs_data,   \* DocsRepository.docs_data
    last_modified_time,  \* DocsRepository.last_modified_time
    load_result, \* what the latest load_data call returned
    sleeps,      \* the time.sleep(self.delay) calls of crawl, in order
    scroll,      \* the scroll_to_bottom call under way
    request,     \* the request a server handler is answering
    response     \* what the handler returned

cliVars == <<argv, args, config, crawler, mainpc>>
repoVars == <<docs_data, last_modified_time, load_result>>
scrollVars == <<scroll>>
serverVars == <<request, response>>

vars == <<cfg, site, visited, docs, page_count, driver, engineLog, stack, phase,
          seedIdx, error, outfile, fetched, failed, skipped, last, href, verdict,
          mtime, sleeps, cliVars, repoVars, scrollVars, serverVars>>

crawlVars == <<visited, docs, page_count, driver, engineLog, stack, phase,
               seedIdx, error, outfile, fetched, failed, skipped, last, mtime,
               sleeps>>

\* ---------------------------------------------------------------------
\* Link classifier
\* ---------------------------------------------------------------------

\* self.path_regex.match(path) for a pattern of the presets' shape "^P.*",
\* which cfg.path_pattern holds as its literal prefix P: re.match anchors at
\* the beginning and ".*" matches any rest
path_regex_match(c, path) == StartsWith(path, c.path_pattern[1])

\* any(parsed.path.startswith(path) for path in self.additional_paths)
AnySeedPrefix(c, path) ==
    \E i \in 1..Len(c.additional_paths) :
        StartsWith(path, c.additional_paths[i])

\* parsed.path.startswith(self.start_path) or any(...)
starts_with_valid_path(c, path) ==
    StartsWith(path, c.start_path) \/ AnySeedPrefix(c, path)

\* is_valid_link, lines 101-114, on the parsed absolute URL
InScope(c, parsed) ==
    IF parsed.netloc # urlparse(c.base_url).netloc THEN FALSE
    ELSE IF c.path_pattern # None
    THEN starts_with_valid_path(c, parsed.path)
         /\ path_regex_match(c, parsed.path)
    ELSE starts_with_valid_path(c, parsed.path)

InScope_NoHostCheck(c, parsed) ==
    IF c.path_pattern # None
    THEN starts_with_valid_path(c, parsed.path)
         /\ path_regex_match(c, parsed.path)
    ELSE starts_with_valid_path(c, parsed.path)

is_valid_link_NoHostCheck(c, h) ==
    IF h = <<>> THEN FALSE
    ELSE IF StartsWith(h, <<"#">>) THEN FALSE
    ELSE IF Contains(h, S_mailto) \/ Contains(h, S_javascript) THEN FALSE
    ELSE InScope_NoHostCheck(c, urlparse(urljoin(c.base_url, h)))

is_valid_link(c, h) ==
    IF h = <<>> THEN FALSE
    ELSE IF StartsWith(h, <<"#">>) THEN FALSE
    ELSE IF Contains(h, S_mailto) \/ Contains(h, S_javascript) THEN FALSE
    ELSE InScope(c, urlparse(urljoin(c.base_url, h)))

\* ---------------------------------------------------------------------
\* Configurations and sites
\* ---------------------------------------------------------------------

\* the largest max_pages of the configurations explored
MaxPagesBound == 3

\* len(str(content).strip()) below which a page is skipped
MinContentLen == 100

\* APIDocCrawler.__init__: the fields the crawl reads
Config(additional_paths, path_pattern, max_pages, use_selenium) ==
    [base_url |-> BaseUrl, start_path |-> StartPath,
     start_url |-> urljoin(BaseUrl, StartPath),
     content_selector |-> Sel_main_article, delay |-> "0.5",
     additional_paths |-> additional_paths, path_pattern |-> path_pattern,
     max_pages |-> max_pages, use_selenium |-> use_selenium]

SeedLists == {<<>>, <<SeedPath>>, <<H_b, SeedPath>>}

Configs ==
    {Config(s, p, m, r) : s \in SeedLists, p \in {None, Some(StartPath)},
                          m \in {None} \cup {Some(n) : n \in 0..MaxPagesBound},
                          r \in BOOLEAN}

U_root == urljoin(BaseUrl, StartPath)
U_a == urljoin(BaseUrl, H_a)
U_b == urljoin(BaseUrl, H_b)
U_c == urljoin(BaseUrl, H_c)
U_api == urljoin(BaseUrl, SeedPath)

\* the <title> element of a page: absent, present without text (its
\* .string is None), or present with a text
NoTitle == None
EmptyTitle == Some(None)
Title(text) == Some(Some(text))

\* str.strip() for the blank character
RECURSIVE Strip(_)
Strip(s) ==
    IF s = <<>> THEN s
    ELSE IF Head(s) = " " THEN Strip(Tail(s))
    ELSE IF s[Len(s)] = " " THEN Strip(Take(s, Len(s) - 1))
    ELSE s

\* an element of the markup: its tag and the length of its stripped
\* serialization, len(str(element).strip())
Element(tag, len) == [tag |-> tag, len |-> len]

\* an element without content serializes to its two tags
EmptyElement(tag) == Element(tag, 2 * Len(tag) + 5)
IsEmpty(el) == el.len = 2 * Len(el.tag) + 5

\* the <body> around content whose serialization has length inner
Body(inner) == Some(Element(S_body, inner + 2 * Len(S_body) + 5))

\* the parsed markup of a page: its <title>, its meta description (None
\* when absent), the elements a selector can match in document order, its
\* <body> (None when absent), and the href of each <a href> in document
\* order
Page(title, description, elements, body, links) ==
    [title |-> title, description |-> description, elements |-> elements,
     body |-> body, links |-> links]

\* an ordinary documentation page, and the page served at a URL the site
\* does not know
Good(links) ==
    Page(Title(T_padded), Some(D_text), <<Element(S_main, MinContentLen)>>,
         Body(MinContentLen), links)
Untitled(links) ==
    Page(NoTitle, None, <<Element(S_main, MinContentLen + 1)>>,
         Body(MinContentLen + 1), links)
NotFoundPage == Page(Title(T_plain), None, <<>>, Body(0), <<>>)

SiteOf(r, a, b, c, api) ==
    (U_root :> r) @@ (U_a :> a) @@ (U_b :> b) @@ (U_c :> c) @@ (U_api :> api)

\* root links to a then b, a links to c
SiteTree ==
    SiteOf(Good(<<H_a, H_b>>), Untitled(<<H_c>>), Good(<<>>), Good(<<>>),
           Good(<<>>))
\* the links of the scope scenario
SiteScope ==
    SiteOf(Good(<<H_a, H_b, H_frag, H_mailto, H_other>>), Good(<<>>),
           Untitled(<<>>), Good(<<>>), Good(<<H_c>>))
\* back links and a link that is visited while an earlier sibling is crawled
SiteCycle ==
    SiteOf(Good(<<H_a, H_b>>), Good(<<H_b, H_root>>), Untitled(<<H_a, H_c>>),
           Good(<<H_root, H_api>>), Good(<<H_a>>))
\* repeated, absolute, relative and off-site links
SiteMixed ==
    SiteOf(Untitled(<<H_a, H_a, H_abs_a, H_off, H_c>>), Good(<<H_rel, H_afrag>>),
           Good(<<>>), Good(<<H_b, H_api>>), Good(<<H_b>>))
\* a chain
SiteChain ==
    SiteOf(Good(<<H_c>>), Good(<<>>), Good(<<H_a>>), Good(<<H_b>>), Good(<<>>))

\* a seed page outside the start path with a link relative to its own
\* directory
SiteRelative ==
    SiteOf(Good(<<H_a>>), Good(<<>>), Good(<<>>), Good(<<>>),
           Good(<<H_rel_docs>>))
Graphs == {SiteTree, SiteScope, SiteCycle, SiteMixed, SiteChain}

\* the content elements of a page: an empty <main> after a long <article>,
\* an <article> alone, a <body> that no selector matches into, no <body>
Regions ==
    {[elements |-> <<Element(S_article, MinContentLen), EmptyElement(S_main)>>,
      body |-> Body(MinContentLen + 2 * Len(S_main) + 5)],
     [elements |-> <<Element(S_article, MinContentLen)>>,
      body |-> Body(MinContentLen)],
     [elements |-> <<>>, body |-> Body(MinContentLen)],
     [elements |-> <<>>, body |-> None]}

\* a site with one page changed: a content region that is too short, a
\* <title> element without text, or other content elements
Shorten(g, u) ==
    [g EXCEPT ![u].elements = <<Element(S_main, MinContentLen - 1)>>,
              ![u].body = Body(MinContentLen - 1)]
Untitle(g, u) == [g EXCEPT ![u].title = EmptyTitle]
Restructure(g, u, r) ==
    [g EXCEPT ![u].elements = r.elements, ![u].body = r.body]

Sites ==
    Graphs \cup {Shorten(g, u) : g \in Graphs, u \in {U_root, U_a, U_b, U_c}}
           \cup {Untitle(g, u) : g \in Graphs, u \in {U_root, U_a, U_c}}
           \cup {Restructure(SiteTree, u, r) : u \in {U_root, U_a},
                                               r \in Regions}
           \cup {SiteRelative}

\* the markup a URL serves
Html(s, u) == IF u \in DOMAIN s THEN s[u] ELSE NotFoundPage

\* ---------------------------------------------------------------------
\* Fetch strategy
\* ---------------------------------------------------------------------

\* what happens in the rendering-mode block of one get_page_content call:
\* nothing goes wrong, or an exception is raised by driver.get, by every
\* WebDriverWait, by the settle delay, inside scroll_to_bottom, or by
\* reading driver.page_source
RenderEvents == {"ok", "get", "wait", "sleep", "scroll", "page_source"}

\* scroll_to_bottom has its own handler: an exception raised inside it is
\* logged and the call returns normally, it never raises
scroll_to_bottom(ev) == IF ev = "scroll" THEN "logged" ELSE "returned"

\* the events whose exception reaches the handler of get_page_content; the
\* WebDriverWait exceptions are caught by the selector loop
RenderRaises(ev) ==
    \/ ev \in {"get", "sleep", "page_source"}
    \/ scroll_to_bottom(ev) = "raised"

NoFetch == [url |-> None, render |-> FALSE, event |-> "none", direct |-> FALSE,
            from |-> "none", html |-> None]

get_page_content_NoFallback(c, s, url, ev, directOk) ==
    IF c.use_selenium
    THEN [url |-> Some(url), render |-> TRUE, event |-> ev, direct |-> FALSE,
          from |-> IF RenderRaises(ev) THEN "none" ELSE "render",
          html |-> IF RenderRaises(ev) THEN None ELSE Some(Html(s, url))]
    ELSE [url |-> Some(url), render |-> FALSE, event |-> "none",
          direct |-> TRUE,
          from |-> IF directOk THEN "direct" ELSE "none",
          html |-> IF directOk THEN Some(Html(s, url)) ELSE None]

\* get_page_content: the rendering-mode block when use_selenium, then,
\* unless that block returned, the direct request; html is the value
\* returned, None after a failed request
get_page_content(c, s, url, ev, directOk) ==
    IF c.use_selenium /\ ~RenderRaises(ev)
    THEN [url |-> Some(url), render |-> TRUE, event |-> ev, direct |-> FALSE,
          from |-> "render", html |-> Some(Html(s, url))]
    ELSE [url |-> Some(url), render |-> c.use_selenium,
          event |-> IF c.use_selenium THEN ev ELSE "none", direct |-> TRUE,
          from |-> IF directOk THEN "direct" ELSE "none",
          html |-> IF directOk THEN Some(Html(s, url)) ELSE None]

\* ---------------------------------------------------------------------
\* Crawl
\* ---------------------------------------------------------------------

InSeq(x, s) == \E i \in 1..Len(s) : s[i] = x

\* the hrefs the pages and the seed lists hold, and the URLs they are
\* resolved against
PageUrls == {U_root, U_a, U_b, U_c, U_api}
SiteHrefs ==
    UNION {{g[u].links[i] : i \in DOMAIN g[u].links} :
               g \in Graphs \cup {SiteRelative}, u \in PageUrls}
SeedHrefs == UNION {{s[i] : i \in DOMAIN s} : s \in SeedLists}

\* is_valid_link and urljoin, tabulated over these hrefs: the verdict on
\* each href under each configuration, and its absolute URL on each page
LinkVerdict ==
    [c \in Configs |-> [h \in SiteHrefs |-> is_valid_link(c, h)]]
FullUrl ==
    [b \in PageUrls \cup {BaseUrl} |->
        [h \in SiteHrefs \cup SeedHrefs |-> urljoin(b, h)]]

AddLink_Always(vis, links, full_url) == Append(links, full_url)

\* extract_links, lines 196-199: the absolute URL is appended unless it
\* is already in the batch or visited
AddLink(vis, links, full_url) ==
    IF ~InSeq(full_url, links) /\ full_url \notin vis
    THEN Append(links, full_url) ELSE links

PrependLink(vis, links, full_url) ==
    IF ~InSeq(full_url, links) /\ full_url \notin vis
    THEN <<full_url>> \o links ELSE links

RECURSIVE extract_links_Prepend(_, _, _, _, _)
extract_links_Prepend(c, vis, hrefs, base_url, links) ==
    IF hrefs = <<>> THEN links
    ELSE extract_links_Prepend(c, vis, Tail(hrefs), base_url,
             IF LinkVerdict[c][Head(hrefs)]
             THEN PrependLink(vis, links, FullUrl[base_url][Head(hrefs)])
             ELSE links)

\* extract_links: the in-scope hrefs of the page, resolved against the
\* page's URL, without those already taken or already visited
RECURSIVE extract_links(_, _, _, _, _)
extract_links(c, vis, hrefs, base_url, links) ==
    IF hrefs = <<>> THEN links
    ELSE extract_links(c, vis, Tail(hrefs), base_url,
             IF LinkVerdict[c][Head(hrefs)]
             THEN AddLink(vis, links, FullUrl[base_url][Head(hrefs)])
             ELSE links)

BudgetReached_OffByOne ==
    cfg.max_pages # None /\ page_count > cfg.max_pages[1]

\* self.max_pages is not None and self.page_count >= self.max_pages
BudgetReached == cfg.max_pages # None /\ page_count >= cfg.max_pages[1]

Frame(u) == [url |-> u, pc |-> "enter", links |-> <<>>, i |-> 1]
Top == stack[Len(stack)]
Pop == Take(stack, Len(stack) - 1)
InCrawl == phase = "crawl" /\ stack # <<>>

\* self.content_selector.split(','), each selector stripped
split_selectors(s) ==
    [i \in 1..Len(Split(s, ",")) |-> Strip(Split(s, ",")[i])]

\* the selector lists of the configurations, tabulated
SelectorList == [s \in {Sel_main_article} |-> split_selectors(s)]

\* soup.select_one(selector): the first element in document order that
\* the selector matches, None when there is none
select_one(page, selector) ==
    IF \A i \in DOMAIN page.elements : page.elements[i].tag # selector
    THEN None
    ELSE Some(page.elements[
             CHOOSE i \in DOMAIN page.elements :
                 /\ page.elements[i].tag = selector
                 /\ \A j \in 1..(i - 1) : page.elements[j].tag # selector])

\* crawl, lines 223-231: the element of the first selector that matches
\* anything (a Tag is true whatever it contains), None when none matches
RECURSIVE SelectContent(_, _)
SelectContent(page, selectors) ==
    IF selectors = <<>> THEN None
    ELSE IF select_one(page, Head(selectors)) # None
    THEN select_one(page, Head(selectors))
    ELSE SelectContent(page, Tail(selectors))

\* crawl, lines 223-235: the content region, soup.body when no selector
\* matches
ContentRegion(c, page) ==
    IF SelectContent(page, SelectorList[c.content_selector]) # None
    THEN SelectContent(page, SelectorList[c.content_selector])
    ELSE page.body

\* crawl, line 238: not content or len(str(content).strip()) < 100
TooShort(c, page) ==
    IF ContentRegion(c, page) = None THEN TRUE
    ELSE ContentRegion(c, page)[1].len < MinContentLen

\* title = soup.title.string.strip() if soup.title else url
TitleOf(page, url) ==
    IF page.title = NoTitle THEN url ELSE Strip(page.title[1][1])

\* self.converter.handle(str(content)): the text of the element, which in
\* the pages here is its tag name, and the blank line that ends a block
Markdown(el) == el.tag \o <<"\n", "\n">>

Document_NoEmptyDescription(c, page, url) ==
    IF page.description = None
    THEN [url |-> url, title |-> TitleOf(page, url),
          content |-> Markdown(ContentRegion(c, page)[1])]
    ELSE [url |-> url, title |-> TitleOf(page, url),
          description |-> page.description[1],
          content |-> Markdown(ContentRegion(c, page)[1])]

\* the record appended to self.docs
Document(c, page, url) ==
    [url |-> url, title |-> TitleOf(page, url),
     description |-> IF page.description = None THEN <<>>
                     ELSE page.description[1],
     content |-> Markdown(ContentRegion(c, page)[1])]

AlreadyVisited_Never(url) == FALSE

\* url in self.visited
AlreadyVisited(url) == url \in visited

\* crawl, line 206: the URL is already visited
CrawlReturnVisited ==
    /\ InCrawl /\ Top.pc = "enter"
    /\ AlreadyVisited(Top.url)
    /\ stack' = Pop
    /\ UNCHANGED <<cfg, site, visited, docs, page_count, driver, engineLog, phase,
                   seedIdx, error, outfile, fetched, failed, skipped, last,
                   href, verdict, mtime, sleeps, cliVars, repoVars,
                   scrollVars, serverVars>>

CrawlReturnBudget_MarksVisited ==
    /\ InCrawl /\ Top.pc = "enter"
    /\ ~AlreadyVisited(Top.url)
    /\ BudgetReached
    /\ visited' = visited \cup {Top.url}
    /\ stack' = Pop
    /\ UNCHANGED <<cfg, site, docs, page_count, driver, engineLog, phase,
                   seedIdx, error, outfile, fetched, failed, skipped, last,
                   href, verdict, mtime, sleeps, cliVars, repoVars,
                   scrollVars, serverVars>>

\* crawl, line 210: the budget is reached
CrawlReturnBudget ==
    /\ InCrawl /\ Top.pc = "enter"
    /\ ~AlreadyVisited(Top.url)
    /\ BudgetReached
    /\ stack' = Pop
    /\ UNCHANGED <<cfg, site, visited, docs, page_count, driver, engineLog, phase,
                   seedIdx, error, outfile, fetched, failed, skipped, last,
                   href, verdict, mtime, sleeps, cliVars, repoVars,
                   scrollVars, serverVars>>

Admit_CountOnSuccess(r) ==
    /\ InCrawl /\ Top.pc = "enter"
    /\ ~AlreadyVisited(Top.url)
    /\ ~BudgetReached
    /\ visited' = visited \cup {Top.url}
    /\ page_count' = IF r.html = None THEN page_count ELSE page_count + 1
    /\ fetched' = Append(fetched, Top.url)
    /\ last' = r
    /\ engineLog' = IF r.render THEN Append(engineLog, "get") ELSE engineLog

\* crawl passes both guards: lines 214-217 with the result r of the fetch
Admit(r) ==
    /\ InCrawl /\ Top.pc = "enter"
    /\ ~AlreadyVisited(Top.url)
    /\ ~BudgetReached
    /\ visited' = visited \cup {Top.url}
    /\ page_count' = page_count + 1
    /\ fetched' = Append(fetched, Top.url)
    /\ last' = r
    /\ engineLog' = IF r.render THEN Append(engineLog, "get") ELSE engineLog

CrawlFetchFail_Abort ==
    \E ev \in RenderEvents, directOk \in BOOLEAN :
        LET r == get_page_content(cfg, site, Top.url, ev, directOk)
        IN  /\ Admit(r)
            /\ r.html = None
            /\ failed' = failed \cup {Top.url}
            /\ error' = TRUE
            /\ stack' = <<>>
            /\ phase' = "finally"
            /\ UNCHANGED <<cfg, site, driver, docs, seedIdx, outfile,
                           skipped, href, verdict, mtime, sleeps, cliVars, repoVars,
                   scrollVars, serverVars>>

\* crawl, lines 214-219: the fetch returns nothing
CrawlFetchFail ==
    \E ev \in RenderEvents, directOk \in BOOLEAN :
        LET r == get_page_content(cfg, site, Top.url, ev, directOk)
        IN  /\ Admit(r)
            /\ r.html = None
            /\ failed' = failed \cup {Top.url}
            /\ stack' = Pop
            /\ UNCHANGED <<cfg, site, driver, docs, phase, seedIdx, error, outfile,
                           skipped, href, verdict, mtime, sleeps, cliVars, repoVars,
                   scrollVars, serverVars>>

\* crawl, lines 214-240: the content region is too short
CrawlSkip ==
    \E ev \in RenderEvents, directOk \in BOOLEAN :
        LET r == get_page_content(cfg, site, Top.url, ev, directOk)
        IN  /\ Admit(r)
            /\ r.html # None
            /\ TooShort(cfg, r.html[1])
            /\ skipped' = skipped \cup {Top.url}
            /\ stack' = Pop
            /\ UNCHANGED <<cfg, site, driver, docs, phase, seedIdx, error, outfile,
                           failed, href, verdict, mtime, sleeps, cliVars, repoVars,
                   scrollVars, serverVars>>

\* crawl, lines 214-243: soup.title.string is None and .strip() raises; the
\* exception leaves every active crawl call and reaches the finally of run
CrawlRaise ==
    \E ev \in RenderEvents, directOk \in BOOLEAN :
        LET r == get_page_content(cfg, site, Top.url, ev, directOk)
        IN  /\ Admit(r)
            /\ r.html # None
            /\ ~TooShort(cfg, r.html[1])
            /\ r.html[1].title = EmptyTitle
            /\ error' = TRUE
            /\ stack' = <<>>
            /\ phase' = "finally"
            /\ UNCHANGED <<cfg, site, driver, docs, seedIdx, outfile, failed, skipped,
                           href, verdict, mtime, sleeps, cliVars, repoVars,
                   scrollVars, serverVars>>

CrawlDoc_Prepend ==
    \E ev \in RenderEvents, directOk \in BOOLEAN :
        LET r == get_page_content(cfg, site, Top.url, ev, directOk)
        IN  /\ Admit(r)
            /\ r.html # None
            /\ ~TooShort(cfg, r.html[1])
            /\ r.html[1].title # EmptyTitle
            /\ docs' = <<Document(cfg, r.html[1], Top.url)>> \o docs
            /\ stack' = [stack EXCEPT ![Len(stack)] =
                   [url |-> Top.url, pc |-> "loop", i |-> 1,
                    links |-> extract_links(cfg, visited \cup {Top.url},
                                            r.html[1].links, Top.url, <<>>)]]
            /\ UNCHANGED <<cfg, site, driver, phase, seedIdx, error, outfile, failed,
                           skipped, href, verdict, mtime, sleeps, cliVars, repoVars,
                   scrollVars, serverVars>>

\* crawl, lines 214-261: the document is appended and the links extracted
CrawlDoc ==
    \E ev \in RenderEvents, directOk \in BOOLEAN :
        LET r == get_page_content(cfg, site, Top.url, ev, directOk)
        IN  /\ Admit(r)
            /\ r.html # None
            /\ ~TooShort(cfg, r.html[1])
            /\ r.html[1].title # EmptyTitle
            /\ docs' = Append(docs, Document(cfg, r.html[1], Top.url))
            /\ stack' = [stack EXCEPT ![Len(stack)] =
                   [url |-> Top.url, pc |-> "loop", i |-> 1,
                    links |-> extract_links(cfg, visited \cup {Top.url},
                                            r.html[1].links, Top.url, <<>>)]]
            /\ UNCHANGED <<cfg, site, driver, phase, seedIdx, error, outfile, failed,
                           skipped, href, verdict, mtime, sleeps, cliVars, repoVars,
                   scrollVars, serverVars>>

\* crawl, lines 262-265: the budget is reached inside the loop over links
LoopBreak ==
    /\ InCrawl /\ Top.pc = "loop"
    /\ Top.i <= Len(Top.links)
    /\ BudgetReached
    /\ stack' = Pop
    /\ UNCHANGED <<cfg, site, visited, docs, page_count, driver, engineLog, phase,
                   seedIdx, error, outfile, fetched, failed, skipped, last,
                   href, verdict, mtime, sleeps, cliVars, repoVars,
                   scrollVars, serverVars>>

LoopDescend_NoAdvance ==
    /\ InCrawl /\ Top.pc = "loop"
    /\ Top.i <= Len(Top.links)
    /\ ~BudgetReached
    /\ stack' = Append(stack, Frame(Top.links[Top.i]))
    /\ UNCHANGED <<cfg, site, visited, docs, page_count, driver, engineLog, phase,
                   seedIdx, error, outfile, fetched, failed, skipped, last,
                   href, verdict, mtime, sleeps, cliVars, repoVars,
                   scrollVars, serverVars>>

LoopDescend_NoSleep ==
    /\ InCrawl /\ Top.pc = "loop"
    /\ Top.i <= Len(Top.links)
    /\ ~BudgetReached
    /\ stack' = Append([stack EXCEPT ![Len(stack)].i = @ + 1],
                       Frame(Top.links[Top.i]))
    /\ UNCHANGED <<cfg, site, visited, docs, page_count, driver, engineLog, phase,
                   seedIdx, error, outfile, fetched, failed, skipped, last,
                   href, verdict, mtime, sleeps, cliVars, repoVars,
                   scrollVars, serverVars>>

\* crawl, lines 262-268: sleep, then the recursive call on the next link;
\* the sleep is noted with its delay, the link it comes before and the
\* number of fetches made so far
LoopDescend ==
    /\ InCrawl /\ Top.pc = "loop"
    /\ Top.i <= Len(Top.links)
    /\ ~BudgetReached
    /\ sleeps' = Append(sleeps, [delay |-> cfg.delay,
                                 before |-> Top.links[Top.i],
                                 fetches |-> Len(fetched)])
    /\ stack' = Append([stack EXCEPT ![Len(stack)].i = @ + 1],
                       Frame(Top.links[Top.i]))
    /\ UNCHANGED <<cfg, site, visited, docs, page_count, driver, engineLog, phase,
                   seedIdx, error, outfile, fetched, failed, skipped, last,
                   href, verdict, mtime, cliVars, repoVars,
                   scrollVars, serverVars>>

\* crawl, line 262: no link is left, the call returns
LoopDone ==
    /\ InCrawl /\ Top.pc = "loop"
    /\ Top.i > Len(Top.links)
    /\ stack' = Pop
    /\ UNCHANGED <<cfg, site, visited, docs, page_count, driver, engineLog, phase,
                   seedIdx, error, outfile, fetched, failed, skipped, last,
                   href, verdict, mtime, sleeps, cliVars, repoVars,
                   scrollVars, serverVars>>

\* ---------------------------------------------------------------------
\* Run
\* ---------------------------------------------------------------------

\* json.dumps of a character: the quote, the backslash and the newline are
\* escaped, every other character is written as it is (ensure_ascii=False)
EscapeChar(ch) ==
    IF ch = "\"" THEN <<"\\", "\"">>
    ELSE IF ch = "\\" THEN <<"\\", "\\">>
    ELSE IF ch = "\n" THEN <<"\\", "n">>
    ELSE <<ch>>

RECURSIVE Escape(_)
Escape(s) ==
    IF s = <<>> THEN <<>> ELSE EscapeChar(Head(s)) \o Escape(Tail(s))

\* the JSON text of a str
JsonString(s) == <<"\"">> \o Escape(s) \o <<"\"">>

\* json.dump of a list of dicts: an array of objects, each the sequence of
\* its members in insertion order, each member a key and the text of its
\* value
json_dump(ds) ==
    [i \in 1..Len(ds) |->
        <<<<"url", JsonString(ds[i].url)>>,
          <<"title", JsonString(ds[i].title)>>,
          <<"description", JsonString(ds[i].description)>>,
          <<"content", JsonString(ds[i].content)>>>>]

\* the character a backslash escape stands for
UnescapeChar(ch) == IF ch = "n" THEN "\n" ELSE ch

RECURSIVE Unescape(_)
Unescape(s) ==
    IF s = <<>> THEN <<>>
    ELSE IF Head(s) = "\\"
    THEN <<UnescapeChar(s[2])>> \o Unescape(Tail(Tail(s)))
    ELSE <<Head(s)>> \o Unescape(Tail(s))

\* the str of a JSON string text
ParseString(text) == Unescape(SubSeq(text, 2, Len(text) - 1))
ParseString_Raw(text) == SubSeq(text, 2, Len(text) - 1)

\* the value of the last member of object with this key
Member(object, key) ==
    object[CHOOSE j \in DOMAIN object :
               /\ object[j][1] = key
               /\ \A k \in DOMAIN object : object[k][1] = key => k <= j][2]

json_load_Raw(array) ==
    [i \in 1..Len(array) |->
        [key \in {array[i][j][1] : j \in DOMAIN array[i]} |->
            ParseString_Raw(Member(array[i], key))]]

\* json.load of an array of objects: a list of dicts
json_load(array) ==
    [i \in 1..Len(array) |->
        [key \in {array[i][j][1] : j \in DOMAIN array[i]} |->
            ParseString(Member(array[i], key))]]

RunSetupFails_Continue ==
    /\ phase = "init"
    /\ cfg.use_selenium
    /\ stack' = <<Frame(cfg.start_url)>>
    /\ phase' = "crawl"
    /\ UNCHANGED <<cfg, site, visited, docs, page_count, driver, engineLog,
                   seedIdx, error, outfile, fetched, failed, skipped,
                   last, href, verdict, mtime, sleeps, cliVars, repoVars,
                   scrollVars, serverVars>>

\* run, lines 272-273 with setup_selenium line 83: the engine cannot be
\* started and the exception leaves run before its try block
RunSetupFails ==
    /\ phase = "init"
    /\ cfg.use_selenium
    /\ phase' = "setup_failed"
    /\ UNCHANGED <<cfg, site, visited, docs, page_count, driver, engineLog,
                   stack, seedIdx, error, outfile, fetched, failed, skipped,
                   last, href, verdict, mtime, sleeps, cliVars, repoVars,
                   scrollVars, serverVars>>

\* run, lines 272-277: the engine is set up when use_selenium, and crawl is
\* called on the start URL
RunBegin ==
    /\ phase = "init"
    /\ driver' = IF cfg.use_selenium THEN Some("engine") ELSE driver
    /\ engineLog' = IF cfg.use_selenium THEN Append(engineLog, "create")
                    ELSE engineLog
    /\ stack' = <<Frame(cfg.start_url)>>
    /\ phase' = "crawl"
    /\ UNCHANGED <<cfg, site, visited, docs, page_count, seedIdx, error,
                   outfile, fetched, failed, skipped, last, href, verdict,
                   mtime, sleeps, cliVars, repoVars,
                   scrollVars, serverVars>>

RunNextSeed_NoVisitedCheck ==
    /\ phase = "crawl" /\ stack = <<>>
    /\ seedIdx < Len(cfg.additional_paths)
    /\ seedIdx' = seedIdx + 1
    /\ stack' =
           <<Frame(FullUrl[cfg.base_url][cfg.additional_paths[seedIdx + 1]])>>
    /\ UNCHANGED <<cfg, site, visited, docs, page_count, driver, engineLog,
                   phase, error, outfile, fetched, failed, skipped, last,
                   href, verdict, mtime, sleeps, cliVars, repoVars,
                   scrollVars, serverVars>>

\* run, lines 280-283: the next additional path, crawled unless visited
RunNextSeed ==
    /\ phase = "crawl" /\ stack = <<>>
    /\ seedIdx < Len(cfg.additional_paths)
    /\ seedIdx' = seedIdx + 1
    /\ LET additional_url ==
               FullUrl[cfg.base_url][cfg.additional_paths[seedIdx + 1]]
       IN  stack' = IF additional_url \notin visited
                    THEN <<Frame(additional_url)>> ELSE stack
    /\ UNCHANGED <<cfg, site, visited, docs, page_count, driver, engineLog,
                   phase, error, outfile, fetched, failed, skipped, last,
                   href, verdict, mtime, sleeps, cliVars, repoVars,
                   scrollVars, serverVars>>

\* run, lines 286-290: the corpus is written
RunWrite ==
    /\ phase = "crawl" /\ stack = <<>>
    /\ seedIdx = Len(cfg.additional_paths)
    /\ outfile' = Some(json_dump(docs))
    /\ mtime' = mtime + 1
    /\ phase' = "finally"
    /\ UNCHANGED <<cfg, site, visited, docs, page_count, driver, engineLog,
                   stack, seedIdx, error, fetched, failed, skipped, last,
                   href, verdict, sleeps, cliVars, repoVars,
                   scrollVars, serverVars>>

RunFinally_QuitInTry ==
    /\ phase = "finally"
    /\ engineLog' = IF driver # None /\ ~error THEN Append(engineLog, "quit")
                    ELSE engineLog
    /\ phase' = IF error THEN "raised" ELSE "done"
    /\ UNCHANGED <<cfg, site, visited, docs, page_count, driver, stack,
                   seedIdx, error, outfile, fetched, failed, skipped, last,
                   href, verdict, mtime, sleeps, cliVars, repoVars,
                   scrollVars, serverVars>>

\* run, lines 291-295: the finally block quits the engine if there is one;
\* run then returns, or the pending exception leaves it
RunFinally ==
    /\ phase = "finally"
    /\ engineLog' = IF driver # None THEN Append(engineLog, "quit")
                    ELSE engineLog
    /\ phase' = IF error THEN "raised" ELSE "done"
    /\ UNCHANGED <<cfg, site, visited, docs, page_count, driver, stack,
                   seedIdx, error, outfile, fetched, failed, skipped, last,
                   href, verdict, mtime, sleeps, cliVars, repoVars,
                   scrollVars, serverVars>>

CrawlInit ==
    /\ visited = {}
    /\ docs = <<>>
    /\ page_count = 0
    /\ driver = None
    /\ engineLog = <<>>
    /\ stack = <<>>
    /\ phase = "init"
    /\ seedIdx = 0
    /\ error = FALSE
    /\ outfile = None
    /\ fetched = <<>>
    /\ failed = {}
    /\ skipped = {}
    /\ last = NoFetch
    /\ mtime = 0
    /\ sleeps = <<>>

\* __main__ has not started
MainIdle ==
    /\ argv = None
    /\ args = None
    /\ config = None
    /\ crawler = None
    /\ mainpc = "idle"

\* no scroll_to_bottom call and no server request is under way
OthersIdle ==
    /\ scroll = None
    /\ request = None
    /\ response = None

\* DocsRepository.__init__, lines 29-31 of src/gemini_docs.py
RepoInit ==
    /\ docs_data = <<>>
    /\ last_modified_time = 0
    /\ load_result = None

Init ==
    /\ cfg \in Configs
    /\ site \in Sites
    /\ CrawlInit
    /\ href = None
    /\ verdict = None
    /\ MainIdle
    /\ RepoInit
    /\ OthersIdle

Next ==
    \/ RunSetupFails
    \/ RunBegin
    \/ CrawlReturnVisited
    \/ CrawlReturnBudget
    \/ CrawlFetchFail
    \/ CrawlSkip
    \/ CrawlRaise
    \/ CrawlDoc
    \/ LoopBreak
    \/ LoopDescend
    \/ LoopDone
    \/ RunNextSeed
    \/ RunWrite
    \/ RunFinally

Spec == Init /\ [][Next]_vars

\* runs over the sites with back links and with relative links, with and
\* without a page budget, in both fetch modes
InitFair ==
    /\ cfg \in {Config(<<H_b, SeedPath>>, None, m, r) :
                    m \in {None, Some(2)}, r \in BOOLEAN}
    /\ site \in {SiteCycle, SiteMixed, Shorten(SiteCycle, U_b),
                 Untitle(SiteCycle, U_c)}
    /\ CrawlInit
    /\ href = None
    /\ verdict = None
    /\ MainIdle
    /\ RepoInit
    /\ OthersIdle

\* the run is a single thread that takes its next step whenever it has one
SpecFair == InitFair /\ [][Next]_vars /\ WF_vars(Next)

\* ---------------------------------------------------------------------
\* The link classifier on its own
\* ---------------------------------------------------------------------

Hrefs ==
    {H_empty, H_frag, H_mailto, H_js, H_a, H_b, H_c, H_other, H_root,
     H_abs_a, H_off, H_netoff, H_rel, H_rel_docs, H_dots, H_query, H_afrag,
     H_api, H_api_y, H_nodir, H_http, H_port, H_user}

\* the configuration of the scope scenario: origin https://example.com,
\* start path /docs/, no seed path and no pattern
ScenarioConfig == Config(<<>>, None, None, FALSE)

LinkConfigs ==
    {Config(s, p, None, FALSE) : s \in SeedLists, p \in {None, Some(StartPath), Some(H_a)}}

InitLink ==
    /\ cfg \in LinkConfigs
    /\ site = SiteScope
    /\ CrawlInit
    /\ href = None
    /\ verdict = None
    /\ MainIdle
    /\ RepoInit
    /\ OthersIdle

\* one call of is_valid_link
Classify ==
    /\ \E h \in Hrefs :
        /\ href' = Some(h)
        /\ verdict' = Some(is_valid_link(cfg, h))
    /\ UNCHANGED <<cfg, site, cliVars, repoVars, scrollVars, serverVars>>
    /\ UNCHANGED crawlVars

NextLink == Classify

SpecLink == InitLink /\ [][NextLink]_vars


\* ---------------------------------------------------------------------
\* The command line (__main__ of src/crawl_all.py)
\* ---------------------------------------------------------------------

PresetMaxPages == 200
AnthropicWaitTime == 8
DefaultWaitTime == 5

\* anthropic_crawl(): the preset of docs.anthropic.com
anthropic_crawl ==
    [base_url |-> Some("https://docs.anthropic.com"),
     start_path |-> Some("/en/api/getting-started"),
     additional_paths |->
         Some(<<"/en/api/messages", "/en/api/rate-limits",
                "/en/api/system-prompts", "/en/api/human-in-the-loop">>),
     output_file |-> Some("document/anthropic_docs.json"),
     selector |->
         Some(".docs-content, main, article, .content-wrapper, .content"),
     use_selenium |-> Some(TRUE),
     path_pattern |-> Some("^/en/api/.*"),
     max_pages |-> Some(PresetMaxPages),
     wait_time |-> Some(AnthropicWaitTime),
     delay |-> Some("1.0")]

\* gemini_crawl(): the preset of ai.google.dev, which has no wait_time
gemini_crawl ==
    [base_url |-> Some("https://ai.google.dev"),
     start_path |-> Some("/gemini-api/docs/"),
     additional_paths |->
         Some(<<"/gemini-api/docs/models", "/gemini-api/docs/quickstart">>),
     output_file |-> Some("document/gemini_docs.json"),
     selector |->
         Some("main, article, .devsite-article-body, .devsite-article-inner"),
     use_selenium |-> Some(FALSE),
     path_pattern |-> Some("^/gemini-api/docs/.*"),
     max_pages |-> Some(PresetMaxPages),
     delay |-> Some("0.5")]

PRESETS == [anthropic |-> anthropic_crawl, gemini |-> gemini_crawl]

\* the attributes of the namespace of parse_args
ArgDests ==
    {"preset", "base_url", "start_path", "output_file", "selector", "delay",
     "use_selenium", "wait_time", "additional_paths", "path_pattern", "debug",
     "max_pages"}

\* the value argparse gives an option that is not on the command line:
\* its default, False for a store_true flag, None otherwise
Defaults ==
    [preset |-> None, base_url |-> None, start_path |-> None,
     output_file |-> None, selector |-> Some("main"), delay |-> Some("0.5"),
     use_selenium |-> Some(FALSE), wait_time |-> Some(DefaultWaitTime),
     additional_paths |-> None, path_pattern |-> None, debug |-> Some(FALSE),
     max_pages |-> None]

\* command lines: each option is absent (None) or given with a value
CommandLines ==
    {[preset |-> p, base_url |-> b, start_path |-> sp, output_file |-> o,
      selector |-> s, delay |-> d, use_selenium |-> u, wait_time |-> w,
      additional_paths |-> None, path_pattern |-> pp, debug |-> None,
      max_pages |-> m] :
        p \in {None, Some("anthropic"), Some("gemini")},
        b \in {None, Some("https://example.com")},
        sp \in {None, Some("/docs/")},
        o \in {None, Some("out.json")},
        s \in {None, Some("article")},
        d \in {None, Some("2.0")},
        u \in {None, Some(TRUE)},
        w \in {None, Some(1)},
        pp \in {None, Some("^/docs/.*")},
        m \in {None, Some(1)}}

InitCli ==
    /\ cfg = Config(<<>>, None, None, FALSE)
    /\ site = SiteScope
    /\ CrawlInit
    /\ href = None
    /\ verdict = None
    /\ RepoInit
    /\ OthersIdle
    /\ argv \in {Some(c) : c \in CommandLines}
    /\ args = None
    /\ config = None
    /\ crawler = None
    /\ mainpc = "parse"

\* parser.parse_args(), lines 351-371: exactly one of --preset and
\* --base-url is required; an option not given gets its default
ParseArgs ==
    /\ mainpc = "parse"
    /\ IF (argv[1].preset = None) = (argv[1].base_url = None)
       THEN /\ mainpc' = "usage_error"
            /\ args' = args
       ELSE /\ mainpc' = "decide"
            /\ args' = Some([k \in ArgDests |->
                                IF argv[1][k] # None THEN argv[1][k]
                                ELSE Defaults[k]])
    /\ UNCHANGED <<cfg, site, href, verdict, argv, config, crawler, repoVars, scrollVars,
                   serverVars>>
    /\ UNCHANGED crawlVars

\* the config dict built from the options, lines 385-396
ExplicitConfig(a) ==
    [base_url |-> a.base_url, start_path |-> a.start_path,
     output_file |-> a.output_file, selector |-> a.selector,
     delay |-> a.delay, use_selenium |-> a.use_selenium,
     wait_time |-> a.wait_time, additional_paths |-> a.additional_paths,
     path_pattern |-> a.path_pattern, max_pages |-> a.max_pages]

\* lines 379-396: the preset's dict, or the dict of the options when
\* --base-url, --start-path and --output_file are all given
Decide ==
    /\ mainpc = "decide"
    /\ IF args[1].preset # None
       THEN /\ config' = Some(PRESETS[args[1].preset[1]])
            /\ mainpc' = "override"
       ELSE IF \/ args[1].base_url = None
               \/ args[1].start_path = None
               \/ args[1].output_file = None
       THEN /\ config' = config
            /\ mainpc' = "usage_error"
       ELSE /\ config' = Some(ExplicitConfig(args[1]))
            /\ mainpc' = "override"
    /\ UNCHANGED <<cfg, site, href, verdict, argv, args, crawler, repoVars, scrollVars,
                   serverVars>>
    /\ UNCHANGED crawlVars

\* the keys the loop of lines 398-401 assigns: every attribute of args
\* but preset and debug whose value is not None
OverrideKeys(a) == {k \in ArgDests \ {"preset", "debug"} : a[k] # None}

\* lines 398-401: config[key] = value for these keys
Override ==
    /\ mainpc = "override"
    /\ config' =
           Some([k \in DOMAIN config[1] \cup OverrideKeys(args[1]) |->
                    IF k \in OverrideKeys(args[1]) THEN args[1][k]
                    ELSE config[1][k]])
    /\ mainpc' = "construct"
    /\ UNCHANGED <<cfg, site, href, verdict, argv, args, crawler, repoVars, scrollVars,
                   serverVars>>
    /\ UNCHANGED crawlVars

\* a keyword argument of __init__, or its default when the dict lacks it
Keyword(c, k, default) == IF k \in DOMAIN c THEN c[k] ELSE default

\* APIDocCrawler(**config), lines 404 and 42-52: the fields set from the
\* arguments
Construct ==
    /\ mainpc = "construct"
    /\ crawler' =
           Some([base_url |-> config[1].base_url,
                 start_path |-> config[1].start_path,
                 output_file |-> config[1].output_file,
                 content_selector |->
                     Keyword(config[1], "selector", Some("main")),
                 delay |-> Keyword(config[1], "delay", Some("0.5")),
                 use_selenium |->
                     Keyword(config[1], "use_selenium", Some(FALSE)),
                 wait_time |->
                     Keyword(config[1], "wait_time", Some(DefaultWaitTime)),
                 additional_paths |->
                     IF Keyword(config[1], "additional_paths", None) = None
                     THEN Some(<<>>)
                     ELSE config[1].additional_paths,
                 path_pattern |-> Keyword(config[1], "path_pattern", None),
                 max_pages |-> Keyword(config[1], "max_pages", None)])
    /\ mainpc' = "run"
    /\ UNCHANGED <<cfg, site, href, verdict, argv, args, config, repoVars, scrollVars,
                   serverVars>>
    /\ UNCHANGED crawlVars

NextCli ==
    \/ ParseArgs
    \/ Decide
    \/ Override
    \/ Construct

SpecCli == InitCli /\ [][NextCli]_vars

\* ---------------------------------------------------------------------
\* The document repository (DocsRepository of src/gemini_docs.py) on the
\* crawler's output file
\* ---------------------------------------------------------------------

\* a file that holds a JSON array of objects, and a file that holds
\* something else: the JSON value null, a text that is cut off in the
\* middle, or an OpenAPI description with no paths
JsonFile(array) == <<array>>
OtherFile(kind) == <<<<>>, kind>>
FileKind(file) == IF Len(file) = 1 THEN "array" ELSE file[2]

\* load_data, lines 35-72, for a .json file: False when the file does not
\* exist, or is not newer than the last load while documents are held;
\* otherwise the file's time is noted and json.load reads the file. When
\* json.load raises, docs_data is not assigned and the handler of line 70
\* returns False; when it returns None, docs_data is assigned, len() of
\* line 65 raises and the handler returns False; otherwise True
load_data ==
    IF outfile = None
    THEN /\ load_result' = Some(FALSE)
         /\ UNCHANGED <<docs_data, last_modified_time>>
    ELSE IF mtime <= last_modified_time /\ docs_data # <<>>
    THEN /\ load_result' = Some(FALSE)
         /\ UNCHANGED <<docs_data, last_modified_time>>
    ELSE /\ last_modified_time' = mtime
         /\ docs_data' = IF FileKind(outfile) = "array"
                         THEN json_load(outfile[1])
                         ELSE IF FileKind(outfile) = "null" THEN None
                         ELSE docs_data
         /\ load_result' = Some(FileKind(outfile) = "array")

\* a load_data call while the crawler runs
LoadData ==
    /\ load_data
    /\ UNCHANGED <<cfg, site, href, verdict, cliVars, scrollVars, serverVars>>
    /\ UNCHANGED crawlVars

NextRepo ==
    \/ Next
    \/ LoadData

\* the crawler runs while the repository loads its output file at any time
SpecRepo == InitFair /\ [][NextRepo]_vars

\* ---------------------------------------------------------------------
\* scroll_to_bottom, script by script
\* ---------------------------------------------------------------------

\* range(3): the scroll attempts of one call
MaxScrolls == 3

\* the largest document.body.scrollHeight a page reports
MaxHeight == 3
Heights == 1..MaxHeight

\* a scroll_to_bottom call: its position, the heights it has read (the one
\* before the loop first), the scripts and reads of the engine in order,
\* and whether an exception was caught
ScrollCall(pc, heights, log, raised) ==
    [pc |-> pc, heights |-> heights, log |-> log, raised |-> raised]

\* scroll attempts made: every height read after the first ends one
Attempts(s) == IF s.heights = <<>> THEN 0 ELSE Len(s.heights) - 1

\* get_page_content has reached line 141 for the start page: the engine was
\* started by run, so the guard of line 162 lets the call through
InitScroll ==
    /\ cfg = Config(<<>>, None, None, TRUE)
    /\ site = SiteScope
    /\ visited = {}
    /\ docs = <<>>
    /\ page_count = 0
    /\ driver = Some("engine")
    /\ engineLog = <<>>
    /\ stack = <<Frame(cfg.start_url)>>
    /\ phase = "crawl"
    /\ seedIdx = 0
    /\ error = FALSE
    /\ outfile = None
    /\ fetched = <<>>
    /\ failed = {}
    /\ skipped = {}
    /\ last = NoFetch
    /\ mtime = 0
    /\ sleeps = <<>>
    /\ href = None
    /\ verdict = None
    /\ MainIdle
    /\ RepoInit
    /\ request = None
    /\ response = None
    /\ scroll = Some(ScrollCall("start", <<>>, <<>>, FALSE))

\* lines 162-167: the height before the loop is read
ScrollReadHeight ==
    /\ scroll # None /\ scroll[1].pc = "start"
    /\ driver # None
    /\ \E h \in Heights :
           scroll' = Some(ScrollCall("loop", <<h>>, scroll[1].log, FALSE))
    /\ UNCHANGED <<cfg, site, href, verdict, cliVars, repoVars, serverVars>>
    /\ UNCHANGED crawlVars

ScrollAttempt_NoBreak ==
    /\ scroll # None /\ scroll[1].pc = "loop"
    /\ \E new_height \in Heights :
           scroll' = Some(ScrollCall(
               IF Attempts(scroll[1]) + 1 = MaxScrolls THEN "top" ELSE "loop",
               Append(scroll[1].heights, new_height),
               Append(scroll[1].log, "bottom"), FALSE))
    /\ UNCHANGED <<cfg, site, href, verdict, cliVars, repoVars, serverVars>>
    /\ UNCHANGED crawlVars

\* lines 169-182, one iteration: scroll down, wait, read the height; the
\* loop ends when the height is the one read before, or with the last
\* iteration
ScrollAttempt ==
    /\ scroll # None /\ scroll[1].pc = "loop"
    /\ \E new_height \in Heights :
           scroll' = Some(ScrollCall(
               IF \/ new_height = scroll[1].heights[Len(scroll[1].heights)]
                  \/ Attempts(scroll[1]) + 1 = MaxScrolls
               THEN "top" ELSE "loop",
               Append(scroll[1].heights, new_height),
               Append(scroll[1].log, "bottom"), FALSE))
    /\ UNCHANGED <<cfg, site, href, verdict, cliVars, repoVars, serverVars>>
    /\ UNCHANGED crawlVars

\* line 185: back to the top of the page
ScrollTop ==
    /\ scroll # None /\ scroll[1].pc = "top"
    /\ scroll' = Some([scroll[1] EXCEPT !.pc = "returned",
                                        !.log = Append(@, "top")])
    /\ UNCHANGED <<cfg, site, href, verdict, cliVars, repoVars, serverVars>>
    /\ UNCHANGED crawlVars

\* lines 186-187: a script raises, the exception is logged and the call
\* returns
ScrollRaise ==
    /\ scroll # None /\ scroll[1].pc \in {"start", "loop", "top"}
    /\ scroll' = Some([scroll[1] EXCEPT !.pc = "returned", !.raised = TRUE])
    /\ UNCHANGED <<cfg, site, href, verdict, cliVars, repoVars, serverVars>>
    /\ UNCHANGED crawlVars

\* get_page_content, line 142: the markup is read when the call is back
ReadPageSource ==
    /\ scroll # None /\ scroll[1].pc = "returned"
    /\ scroll' = Some([scroll[1] EXCEPT !.pc = "read",
                                        !.log = Append(@, "page_source")])
    /\ UNCHANGED <<cfg, site, href, verdict, cliVars, repoVars, serverVars>>
    /\ UNCHANGED crawlVars

NextScroll ==
    \/ ScrollReadHeight
    \/ ScrollAttempt
    \/ ScrollTop
    \/ ScrollRaise
    \/ ReadPageSource

SpecScroll == InitScroll /\ [][NextScroll]_vars

\* ---------------------------------------------------------------------
\* The two document servers (src/gemini_docs.py, src/openapi_docs.py)
\* ---------------------------------------------------------------------

\* the largest modification time a file gets
MaxMtime == 2

\* the largest index a client asks for, and the indexes it asks for
MaxIndex == 3
Indexes == -MaxIndex..MaxIndex

D_one ==
    [url |-> <<"u", "1">>, title |-> <<"t", "1">>, description |-> <<>>,
     content |-> <<"c", "\n", "1">>]
D_two ==
    [url |-> <<"u", "2">>, title |-> <<"t", "\"", "2">>,
     description |-> <<"d">>, content |-> <<"c", "2">>]

File_one == JsonFile(json_dump(<<D_one>>))
File_two == JsonFile(json_dump(<<D_one, D_two>>))
File_untitled ==
    JsonFile(<<<<<<"url", JsonString(<<"u", "3">>)>>,
                 <<"content", JsonString(<<"c", "3">>)>>>>>>)
File_empty == JsonFile(<<>>)
File_null == OtherFile("null")
File_truncated == OtherFile("truncated")
File_openapi == OtherFile("openapi")

Servers == {"gemini", "openapi"}

\* the files each server is given; the OpenAPI description goes to the
\* OpenAPI server only
ServerFiles(server) ==
    {File_one, File_two, File_untitled, File_empty, File_null, File_truncated}
        \cup (IF server = "openapi" THEN {File_openapi} ELSE {})

Request(server, op, index) == [server |-> server, op |-> op, index |-> index]

\* the module is imported: docs_repository is about to be constructed
InitServer ==
    /\ cfg = Config(<<>>, None, None, FALSE)
    /\ site = SiteScope
    /\ CrawlInit
    /\ href = None
    /\ verdict = None
    /\ MainIdle
    /\ RepoInit
    /\ scroll = None
    /\ \E server \in Servers : request = Some(Request(server, "import", 0))
    /\ response = None

\* the file is written anew, with any content and any modification time
ModifyFile ==
    /\ request # None
    /\ \E file \in ServerFiles(request[1].server), t \in 1..MaxMtime :
           /\ outfile' = file
           /\ mtime' = t
    /\ UNCHANGED <<cfg, site, visited, docs, page_count, driver, engineLog,
                   stack, phase, seedIdx, error, fetched, failed, skipped,
                   last, sleeps, href, verdict, cliVars, repoVars, scrollVars,
                   serverVars>>

\* the file is removed
RemoveFile ==
    /\ request # None
    /\ outfile # None
    /\ outfile' = None
    /\ UNCHANGED <<cfg, site, visited, docs, page_count, driver, engineLog,
                   stack, phase, seedIdx, error, fetched, failed, skipped,
                   last, mtime, sleeps, href, verdict, cliVars, repoVars,
                   scrollVars, serverVars>>

Text_Document == <<"D", "o", "c", "u", "m", "e", "n", "t">>
Text_api_document ==
    <<"a", "p", "i", ":", "/", "/", "d", "o", "c", "u", "m", "e", "n", "t">>
Text_api_info == <<"a", "p", "i", ":", "/", "/", "i", "n", "f", "o">>
Text_No_description ==
    <<"N", "o", " ", "d", "e", "s", "c", "r", "i", "p", "t", "i", "o", "n">>
\* f"{api_title} v{api_version}" with the defaults of lines 60-61
Text_API_Documentation_vunknown ==
    <<"A", "P", "I", " ", "D", "o", "c", "u", "m", "e", "n", "t", "a", "t",
      "i", "o", "n", " ", "v", "u", "n", "k", "n", "o", "w", "n">>
\* yaml.dump(None)
Text_yaml_null == <<"n", "u", "l", "l", "\n", ".", ".", ".", "\n">>

\* load_data of src/openapi_docs.py, lines 37-108, for a .yaml file: a
\* list is taken as it is, an OpenAPI description gives the overview
\* document and one document per operation (none here), any other value
\* gives one document that holds its dump; an exception of open or of the
\* parser empties the data. No path of the method returns a value
openapi_load_data ==
    /\ docs_data' =
           IF outfile = None THEN <<>>
           ELSE IF FileKind(outfile) = "array" THEN json_load(outfile[1])
           ELSE IF FileKind(outfile) = "openapi"
           THEN <<[title |-> Text_API_Documentation_vunknown,
                   content |-> Text_No_description,
                   url |-> Text_api_info]>>
           ELSE IF FileKind(outfile) = "null"
           THEN <<[title |-> Text_Document,
                   content |-> Text_yaml_null,
                   url |-> Text_api_document]>>
           ELSE <<>>
    /\ load_result' = None
    /\ UNCHANGED last_modified_time

\* docs_repository = DocsRepository(...): __init__ calls load_data
ServerStart ==
    /\ request # None /\ request[1].op = "import"
    /\ IF request[1].server = "gemini" THEN load_data ELSE openapi_load_data
    /\ request' = Some(Request(request[1].server, "start", 0))
    /\ response' = None
    /\ UNCHANGED <<cfg, site, href, verdict, cliVars, scrollVars>>
    /\ UNCHANGED crawlVars

\* the text of docs://reload: the count of documents after a reload, None
\* for the text that says the file has not changed
ReloadMessage(was_updated, count) ==
    IF was_updated THEN Some(count) ELSE None

\* the file can be opened and parsed
Readable == IF outfile = None THEN FALSE ELSE FileKind(outfile) # "truncated"

\* reload_data of src/gemini_docs.py, lines 146-155
GeminiReload ==
    /\ request # None /\ request[1].server = "gemini"
    /\ request[1].op # "import"
    /\ load_data
    /\ request' = Some(Request("gemini", "reload", 0))
    /\ response' = Some([reloaded |-> ReloadMessage(load_result' = Some(TRUE),
                                                    Len(docs_data'))])
    /\ UNCHANGED <<cfg, site, href, verdict, cliVars, scrollVars>>
    /\ UNCHANGED crawlVars

\* reload_data of src/openapi_docs.py, lines 159-169: was_updated is the
\* None that load_data returned
OpenapiReload ==
    /\ request # None /\ request[1].server = "openapi"
    /\ request[1].op # "import"
    /\ openapi_load_data
    /\ request' = Some(Request("openapi", "reload", 0))
    /\ response' = Some([reloaded |-> ReloadMessage(load_result' = Some(TRUE),
                                                    Len(docs_data'))])
    /\ UNCHANGED <<cfg, site, href, verdict, cliVars, scrollVars>>
    /\ UNCHANGED crawlVars

\* list[idx] of Python: from the end for a negative idx, None for the
\* IndexError
PyItem(list, idx) ==
    IF 0 <= idx /\ idx < Len(list) THEN Some(list[idx + 1])
    ELSE IF -Len(list) <= idx /\ idx < 0 THEN Some(list[Len(list) + idx + 1])
    ELSE None

\* doc.get(key, default)
Get(doc, key, default) == IF key \in DOMAIN doc THEN doc[key] ELSE default

\* the default texts of lines 235-237, which are Japanese for these words
Text_no_title == <<"n", "o", " ", "t", "i", "t", "l", "e">>
Text_no_url == <<"n", "o", " ", "U", "R", "L">>
Text_no_content == <<"n", "o", " ", "c", "o", "n", "t", "e", "n", "t">>

\* the document of a successful answer, lines 232-240
Answer(doc) ==
    [title |-> Get(doc, "title", Text_no_title),
     url |-> Get(doc, "url", Text_no_url),
     content |-> Get(doc, "content", Text_no_content)]

Failure(message) ==
    [success |-> FALSE, message |-> message, document |-> None,
     raised |-> FALSE]

Found(item) ==
    IF item = None
    THEN [success |-> FALSE, message |-> "", document |-> None,
          raised |-> TRUE]
    ELSE [success |-> TRUE, message |-> "", document |-> Some(Answer(item[1])),
          raised |-> FALSE]

get_document_by_index_NoLowerCheck(data, index) ==
    IF data = <<>> THEN Failure("not_loaded")
    ELSE IF index - 1 >= Len(data) THEN Failure("out_of_range")
    ELSE Found(PyItem(data, index - 1))

\* get_document_by_index, lines 207-240 of src/gemini_docs.py and lines
\* 221-254 of src/openapi_docs.py
get_document_by_index(data, index) ==
    IF data = <<>> THEN Failure("not_loaded")
    ELSE IF index - 1 < 0 \/ index - 1 >= Len(data)
    THEN Failure("out_of_range")
    ELSE Found(PyItem(data, index - 1))

\* a getDocumentByIndex call
GetDocumentByIndex ==
    /\ request # None /\ request[1].op # "import"
    /\ \E index \in Indexes :
           /\ request' = Some(Request(request[1].server, "index", index))
           /\ response' = Some(get_document_by_index(docs_data, index))
    /\ UNCHANGED <<cfg, site, href, verdict, cliVars, repoVars, scrollVars>>
    /\ UNCHANGED crawlVars

NextServer ==
    \/ ModifyFile
    \/ RemoveFile
    \/ ServerStart
    \/ GeminiReload
    \/ OpenapiReload
    \/ GetDocumentByIndex

SpecServer == InitServer /\ [][NextServer]_vars
\* ---------------------------------------------------------------------
\* Properties
\* ---------------------------------------------------------------------

NoRepeat(s) == \A i, j \in 1..Len(s) : s[i] = s[j] => i = j
DocUrls == [i \in 1..Len(docs) |-> docs[i].url]
Finished == phase \in {"done", "raised"}
Count(s, x) == Cardinality({i \in 1..Len(s) : s[i] = x})

\* C1: in a run no URL is passed to the fetch step twice, no two documents
\* of the corpus have the same url, and a URL whose fetch failed is fetched
\* exactly that once.
C1_NoUrlTwice ==
    /\ NoRepeat(fetched)
    /\ NoRepeat(DocUrls)
    /\ \A u \in failed : Count(fetched, u) = 1

\* a crawl call on a URL whose earlier fetch failed is about to return
C1_Witness ==
    /\ InCrawl /\ Top.pc = "enter"
    /\ Top.url \in failed
    /\ Len(docs) >= 2

\* C2: with max_pages = N, at most N URLs are fetched and the corpus has at
\* most N documents, start URL, links and seed paths counted together.
C2_BudgetBound ==
    cfg.max_pages # None =>
        /\ Len(fetched) <= cfg.max_pages[1]
        /\ Len(docs) <= cfg.max_pages[1]
        /\ outfile # None => Len(outfile[1]) <= cfg.max_pages[1]

\* the budget of 2 is used up and the crawl call of a seed path is refused
C2_Witness ==
    /\ cfg.max_pages = Some(2)
    /\ Len(fetched) = 2
    /\ seedIdx >= 1
    /\ InCrawl /\ Top.pc = "enter" /\ Len(stack) = 1
    /\ ~AlreadyVisited(Top.url)

\* the in-scope links of a page in document order, resolved as
\* extract_links resolves them
RECURSIVE AcceptedLinks(_, _, _)
AcceptedLinks(c, hrefs, base_url) ==
    IF hrefs = <<>> THEN <<>>
    ELSE (IF is_valid_link(c, Head(hrefs))
          THEN <<urljoin(base_url, Head(hrefs))>> ELSE <<>>)
         \o AcceptedLinks(c, Tail(hrefs), base_url)

\* depth-first preorder from the URLs of todo, after the URLs of order
RECURSIVE DepthFirst(_, _, _, _)
DepthFirst(s, c, todo, order) ==
    IF todo = <<>> THEN order
    ELSE IF InSeq(Head(todo), order) THEN DepthFirst(s, c, Tail(todo), order)
    ELSE DepthFirst(s, c,
                    AcceptedLinks(c, Html(s, Head(todo)).links, Head(todo))
                        \o Tail(todo),
                    Append(order, Head(todo)))

SeedUrls(c) ==
    [i \in 1..Len(c.additional_paths) |->
        urljoin(c.base_url, c.additional_paths[i])]

\* C3: when every fetch succeeds, no page is skipped and no budget is set,
\* the corpus lists the pages in depth-first discovery order; for root
\* linking to a then b and a linking to c it is root, a, c, b.
C3_DepthFirstOrder ==
    (phase = "done" /\ failed = {} /\ skipped = {} /\ cfg.max_pages = None) =>
        /\ DocUrls = DepthFirst(site, cfg, <<cfg.start_url>> \o SeedUrls(cfg),
                                <<>>)
        /\ (site = SiteTree /\ cfg.additional_paths = <<>>) =>
               DocUrls = <<U_root, U_a, U_c, U_b>>

C3_Witness ==
    /\ phase = "done" /\ failed = {} /\ skipped = {} /\ cfg.max_pages = None
    /\ site = SiteTree /\ cfg.additional_paths = <<>>
    /\ Len(docs) = 4

\* C4: a page fetched with a content region under 100 characters gets no
\* document, yet its in-scope links are still crawled: when the run is done
\* and no budget is set, every in-scope link of a skipped page is visited.
C4_SkipStillDiscovers ==
    (phase = "done" /\ cfg.max_pages = None) =>
        \A u \in skipped :
            /\ ~InSeq(u, DocUrls)
            /\ \A i \in 1..Len(AcceptedLinks(cfg, Html(site, u).links, u)) :
                   AcceptedLinks(cfg, Html(site, u).links, u)[i] \in visited

\* C5: however the crawl phase ended, when run is over the output file holds
\* the documents collected.
C5_AlwaysWritten ==
    Finished => outfile = Some(json_dump(docs))

CountIn(s, x, n) == Cardinality({i \in 1..n : s[i] = x})

\* C6: the engine is created at most once, only in rendering mode and
\* before the first fetch; it is quit exactly once when it was created, after
\* the crawl completed or failed; every rendering fetch uses a created
\* engine that is not yet quit.
C6_EngineLifecycle ==
    /\ Count(engineLog, "create") <= 1
    /\ Count(engineLog, "create") = 1 => cfg.use_selenium
    /\ (cfg.use_selenium /\ phase \notin {"init", "setup_failed"}) =>
           (engineLog # <<>> /\ engineLog[1] = "create")
    /\ Count(engineLog, "quit") <= Count(engineLog, "create")
    /\ Finished => Count(engineLog, "quit") = Count(engineLog, "create")
    /\ Count(engineLog, "quit") > 0 => Finished
    /\ \A i \in 1..Len(engineLog) :
           engineLog[i] = "get" =>
               /\ CountIn(engineLog, "create", i) = 1
               /\ CountIn(engineLog, "quit", i) = 0

\* the crawl failed with an exception after a rendering fetch, and the
\* engine was quit
C6_Witness ==
    /\ phase = "raised"
    /\ Count(engineLog, "get") >= 2
    /\ engineLog[Len(engineLog)] = "quit"

C8_FailureScopedToUrl ==
    /\ [](\A u \in failed :
              /\ u \in visited
              /\ ~InSeq(u, DocUrls)
              /\ Count(fetched, u) = 1)
    /\ [][failed' # failed =>
              /\ stack' = Pop
              /\ phase' = phase
              /\ seedIdx' = seedIdx
              /\ error' = error
              /\ docs' = docs]_vars

\* after a failed fetch, a sibling link and a seed path were fetched and
\* recorded
C8_Witness ==
    /\ phase = "done"
    /\ \E i, j, k \in 1..Len(fetched) :
           /\ i < j /\ j < k
           /\ fetched[i] \in failed
           /\ fetched[j] = U_b /\ InSeq(U_b, DocUrls)
           /\ fetched[k] = U_api /\ InSeq(U_api, DocUrls)
           /\ U_b \notin {urljoin(cfg.base_url, cfg.additional_paths[n]) :
                             n \in 1..Len(cfg.additional_paths)}

\* C9: no page content aborts the run, and a document's title is the
\* trimmed <title> text when the page has one and the page's URL otherwise.
C9_NoPageAbortsRun ==
    /\ ~error
    /\ \A i \in 1..Len(docs) :
           LET t == Html(site, docs[i].url).title
           IN  docs[i].title = IF t # None /\ t[1] # None THEN Strip(t[1][1])
                               ELSE docs[i].url

\* host of a netloc: without the user information and the port
HostOf(netloc) ==
    LET at == FindFirst(netloc, {"@"}, 1)
        h == IF at <= Len(netloc) THEN Drop(netloc, at) ELSE netloc
    IN  Take(h, FindFirst(h, {":"}, 1) - 1)

\* C10: an accepted href, resolved against the base origin, has the
\* configured host, a path under the start path or a seed path, and matches
\* the pattern from its beginning; of the five hrefs of the scenario exactly
\* /docs/a and /docs/b are accepted.
C10_AcceptedInScope ==
    /\ verdict = Some(TRUE) =>
           LET p == urlparse(urljoin(cfg.base_url, href[1]))
           IN  /\ HostOf(p.netloc) = HostOf(urlparse(cfg.base_url).netloc)
               /\ \/ StartsWith(p.path, cfg.start_path)
                  \/ \E i \in 1..Len(cfg.additional_paths) :
                         StartsWith(p.path, cfg.additional_paths[i])
               /\ cfg.path_pattern # None =>
                      StartsWith(p.path, cfg.path_pattern[1])
    /\ (cfg = ScenarioConfig /\ href # None
        /\ href[1] \in {H_a, H_b, H_frag, H_mailto, H_other}) =>
           verdict = Some(href[1] \in {H_a, H_b})

\* /docs/b is accepted under the scenario's configuration
C10_Witness ==
    /\ cfg = ScenarioConfig
    /\ href = Some(H_b)
    /\ verdict = Some(TRUE)

\* the seven rules of the link classifier, with rule 3 read as a test of
\* the href's scheme
SevenRulesAccept(c, h) ==
    /\ h # <<>>
    /\ ~StartsWith(h, <<"#">>)
    /\ urlparse(h).scheme \notin {<<"m", "a", "i", "l", "t", "o">>,
                                 <<"j", "a", "v", "a", "s", "c", "r", "i", "p", "t">>}
    /\ InScope(c, urlparse(urljoin(c.base_url, h)))

\* C11: is_valid_link rejects exactly what the seven rules reject; an href
\* that passes them is accepted even when "mailto:" or "javascript:" occurs
\* elsewhere in it, as in a query string.
C11_ExactlySevenRules ==
    verdict # None => verdict = Some(SevenRulesAccept(cfg, href[1]))

\* C12: with max_pages = 1 and a start URL fetched successfully with a
\* content region of at least 100 characters, the finished run has exactly
\* the start page in its corpus and has fetched no other URL.
C12_BudgetOneStartOnly ==
    (/\ Finished
     /\ cfg.max_pages = Some(1)
     /\ fetched # <<>>
     /\ cfg.start_url \notin failed
     /\ ~TooShort(cfg, Html(site, cfg.start_url))) =>
        /\ DocUrls = <<cfg.start_url>>
        /\ fetched = <<cfg.start_url>>

\* C13: a crawl call entered when the budget is reached changes nothing:
\* visited set, page counter, fetch log, corpus and error state stay as they
\* are, and the call just returns.
C13_BudgetReturnNoEffect ==
    [][(InCrawl /\ Top.pc = "enter" /\ BudgetReached) =>
           /\ visited' = visited
           /\ page_count' = page_count
           /\ fetched' = fetched
           /\ docs' = docs
           /\ error' = error
           /\ phase' = phase
           /\ stack' = Pop]_vars

\* the crawl call of a seed path not yet visited has returned on the
\* budget: the seed is still unvisited
C13_Witness ==
    /\ phase = "crawl" /\ stack = <<>>
    /\ cfg.additional_paths = <<SeedPath>> /\ seedIdx = 1
    /\ cfg.max_pages = Some(2) /\ page_count = 2
    /\ U_api \notin visited

\* C14: the page counter goes up by one exactly when a URL is marked
\* visited, which is when it is passed to the fetch, whatever the outcome;
\* so page_count is the size of the visited set and failed and skipped pages
\* count.
C14_CounterIsVisitedSize ==
    /\ [](/\ page_count = Cardinality(visited)
          /\ page_count = Len(fetched)
          /\ \A i \in 1..Len(fetched) : fetched[i] \in visited)
    /\ [][/\ visited' # visited => page_count' = page_count + 1
          /\ fetched' # fetched => page_count' = page_count + 1
          /\ page_count' # page_count => visited' # visited]_vars

\* a failed and a skipped page are both counted
C14_Witness ==
    /\ failed # {} /\ skipped # {}
    /\ docs = <<>>
    /\ page_count = 2

\* run is over: it returned, or an exception left it
Terminated == phase \in {"done", "raised", "setup_failed"}

\* C15: for every site and configuration explored, with or without a
\* maximum page count, run terminates, and with it every crawl call.
C15_RunTerminates == <>(Terminated /\ stack = <<>>)

\* a run without page budget over the site with back links is over
C15_Witness ==
    /\ phase = "done"
    /\ cfg.max_pages = None
    /\ site = SiteCycle
    /\ Len(docs) >= 4


\* C16: run calls crawl on the start URL first; a seed path is taken up
\* only when no crawl call is active, the seed paths are taken in configured
\* order, and crawl is called on a seed exactly when its absolute URL is not
\* in the visited set.
C16_StartThenSeedsInOrder ==
    /\ [](fetched # <<>> => fetched[1] = cfg.start_url)
    /\ [][/\ (phase = "init" /\ phase' = "crawl") =>
                 stack' = <<Frame(cfg.start_url)>> /\ seedIdx' = 0
          /\ seedIdx' # seedIdx =>
                 /\ phase = "crawl" /\ stack = <<>>
                 /\ seedIdx' = seedIdx + 1
                 /\ stack' = IF SeedUrls(cfg)[seedIdx'] \in visited THEN <<>>
                              ELSE <<Frame(SeedUrls(cfg)[seedIdx'])>>]_vars

\* the first seed was reached through the links of the start page and is
\* passed over, the second seed is being crawled
C16_Witness ==
    /\ site = SiteChain
    /\ cfg.additional_paths = <<H_b, SeedPath>>
    /\ seedIdx = 2
    /\ InCrawl /\ Top.url = U_api /\ Top.pc = "enter"
    /\ Count(fetched, U_b) = 1
    /\ DocUrls = <<U_root, U_c, U_b, U_a>>

\* C17: when the rendering engine cannot be started the run is over at
\* once: nothing has been fetched, no document or output exists, and no
\* further step is taken; a run in rendering mode that fetches anything has
\* started its engine.
C17_SetupFailureIsFatal ==
    /\ [](phase = "setup_failed" =>
             /\ fetched = <<>> /\ visited = {} /\ docs = <<>>
             /\ outfile = None /\ stack = <<>>)
    /\ []((cfg.use_selenium /\ fetched # <<>>) =>
             Count(engineLog, "create") = 1)
    /\ [][phase = "setup_failed" => UNCHANGED vars]_vars

\* the engine of a rendering-mode run over a site with seed paths failed
\* to start
C17_Witness ==
    /\ phase = "setup_failed"
    /\ cfg.use_selenium
    /\ cfg.additional_paths = <<H_b, SeedPath>>
    /\ site = SiteCycle

\* the element of the first selector that matches a non-empty element
RECURSIVE FirstNonEmpty(_, _)
FirstNonEmpty(page, selectors) ==
    IF selectors = <<>> THEN None
    ELSE IF /\ select_one(page, Head(selectors)) # None
            /\ ~IsEmpty(select_one(page, Head(selectors))[1])
    THEN select_one(page, Head(selectors))
    ELSE FirstNonEmpty(page, Tail(selectors))

NonEmptyRegion(c, page) ==
    IF FirstNonEmpty(page, split_selectors(c.content_selector)) # None
    THEN FirstNonEmpty(page, split_selectors(c.content_selector))
    ELSE page.body

\* C18: the content region of a page is the element of the first configured
\* selector that matches a non-empty element, and the body when no selector
\* matches: every document holds that region, and a page is skipped only
\* when that region is absent or shorter than 100 characters.
C18_FirstNonEmptySelectorWins ==
    /\ \A i \in 1..Len(docs) :
           /\ NonEmptyRegion(cfg, Html(site, docs[i].url)) # None
           /\ docs[i].content =
                  Markdown(NonEmptyRegion(cfg, Html(site, docs[i].url))[1])
    /\ \A u \in skipped :
           \/ NonEmptyRegion(cfg, Html(site, u)) = None
           \/ NonEmptyRegion(cfg, Html(site, u))[1].len < MinContentLen

\* what the preset p fixes for the constructor argument k, the
\* constructor's default where the preset has no such key
PresetValue(p, k) ==
    IF k \in DOMAIN PRESETS[p] THEN PRESETS[p][k]
    ELSE IF k = "wait_time" THEN Some(DefaultWaitTime)
    ELSE None

\* the value of argument k when preset p is named: the option's value when
\* the option is on the command line, the preset's own otherwise
PresetOrOption(k) ==
    IF argv[1][k] # None THEN argv[1][k]
    ELSE PresetValue(argv[1].preset[1], k)

\* C19: a crawler started with a named preset runs with the preset's own
\* origin, start path, seed paths, selector list, path pattern, page budget,
\* rendering toggle, wait timeout and delay, except for the fields whose
\* option is given on the command line.
C19_PresetKeepsOwnFields ==
    (mainpc = "run" /\ argv[1].preset # None) =>
        /\ crawler[1].base_url = PresetOrOption("base_url")
        /\ crawler[1].start_path = PresetOrOption("start_path")
        /\ crawler[1].additional_paths = PresetOrOption("additional_paths")
        /\ crawler[1].content_selector = PresetOrOption("selector")
        /\ crawler[1].path_pattern = PresetOrOption("path_pattern")
        /\ crawler[1].max_pages = PresetOrOption("max_pages")
        /\ crawler[1].use_selenium = PresetOrOption("use_selenium")
        /\ crawler[1].wait_time = PresetOrOption("wait_time")
        /\ crawler[1].delay = PresetOrOption("delay")

\* C20: once load_data has loaded the file the crawler wrote, docs_data has
\* as many records as the corpus written, in the same order, each equal to
\* the original in url, title and content.
C20_WriteLoadRoundTrip ==
    last_modified_time > 0 =>
        /\ Len(docs_data) = Len(docs)
        /\ \A i \in 1..Len(docs_data) :
               /\ docs_data[i].url = docs[i].url
               /\ docs_data[i].title = docs[i].title
               /\ docs_data[i].content = docs[i].content

\* a corpus of several documents has been written and loaded
C20_Witness ==
    /\ load_result = Some(TRUE)
    /\ outfile # None
    /\ Len(docs) >= 3
    /\ Len(docs_data) = Len(docs)

DocFields == {"url", "title", "description", "content"}

\* C21: every record of the corpus and every object of the written output
\* has exactly the fields url, title, description and content, and the
\* description is the empty string when the page has no meta description.
C21_FourFields ==
    /\ \A i \in 1..Len(docs) :
           /\ DOMAIN docs[i] = DocFields
           /\ Html(site, docs[i].url).description = None =>
                  docs[i].description = <<>>
    /\ outfile # None =>
           /\ Len(outfile[1]) = Len(docs)
           /\ \A i \in 1..Len(outfile[1]) :
                  /\ [j \in 1..Len(outfile[1][i]) |-> outfile[1][i][j][1]] =
                         <<"url", "title", "description", "content">>
                  /\ Html(site, docs[i].url).description = None =>
                         outfile[1][i][3][2] = JsonString(<<>>)

\* a corpus with a page without meta description has been written
C21_Witness ==
    /\ outfile # None
    /\ Len(docs) >= 2
    /\ \E i \in 1..Len(docs) : Html(site, docs[i].url).description = None
    /\ \E i \in 1..Len(docs) : docs[i].description # <<>>

\* a crawl call is made from the link loop of the innermost active call
Descends == InCrawl /\ Len(stack') = Len(stack) + 1

\* C22: the links of a page are taken in batch order, one per iteration;
\* every recursive call from the loop is preceded by exactly one sleep of the
\* configured delay, nothing else sleeps, and an iteration that finds the
\* budget reached leaves the loop without sleeping or calling.
C22_SleepBeforeEachDescent ==
    [][/\ Descends =>
             /\ Top.pc = "loop"
             /\ stack'[Len(stack')] = Frame(Top.links[Top.i])
             /\ stack'[Len(stack)] = [Top EXCEPT !.i = Top.i + 1]
             /\ sleeps' = Append(sleeps, [delay |-> cfg.delay,
                                          before |-> Top.links[Top.i],
                                          fetches |-> Len(fetched)])
       /\ sleeps' # sleeps => Descends
       /\ (InCrawl /\ Top.pc = "loop" /\ BudgetReached) =>
             /\ stack' = Pop
             /\ sleeps' = sleeps]_vars

\* the second link of a page is being descended into, after two sleeps
C22_Witness ==
    /\ Len(stack) = 2
    /\ stack[1].i = 3
    /\ stack[2].pc = "enter"
    /\ stack[2].url = stack[1].links[2]
    /\ Len(sleeps) >= 2
    /\ sleeps[Len(sleeps)].before = stack[2].url

\* C23: the link batch of every active call holds no URL twice; when a page
\* is parsed its batch holds no URL visited by then; and a call on a URL
\* that is visited by the time its turn comes returns without a fetch.
C23_BatchDistinctAndUnvisited ==
    /\ [](\A k \in 1..Len(stack) : NoRepeat(stack[k].links))
    /\ [][/\ (InCrawl /\ Top.pc = "enter" /\ Len(stack') = Len(stack)) =>
                 \A n \in 1..Len(stack'[Len(stack)].links) :
                     stack'[Len(stack)].links[n] \notin visited'
          /\ (InCrawl /\ Top.pc = "enter" /\ Top.url \in visited) =>
                 /\ fetched' = fetched
                 /\ visited' = visited
                 /\ stack' = Pop]_vars

\* the second link of the start page was visited while the first was
\* crawled, and its turn has come
C23_Witness ==
    /\ Len(stack) = 2
    /\ stack[1].url = cfg.start_url
    /\ stack[1].i = 3
    /\ stack[2].pc = "enter"
    /\ stack[2].url = stack[1].links[2]
    /\ stack[2].url \in visited

\* the heights a call read before and after its k-th scroll attempt
Before(s, k) == s.heights[k]
After(s, k) == s.heights[k + 1]

\* the call is back in get_page_content and no script raised
Completed(s) == s.pc \in {"returned", "read"} /\ ~s.raised

\* the last script the engine ran for the call
LastScript(s) ==
    IF s.pc = "read" THEN s.log[Len(s.log) - 1] ELSE s.log[Len(s.log)]

\* C24 as stated: a scroll_to_bottom call that completes without error has
\* made between one and MaxScrolls scroll attempts, every attempt but the
\* last saw the height grow, the last one saw no growth unless it was the
\* MaxScrolls-th, and the last script before the markup is read scrolls to
\* the top.
C24_StopsOnNoGrowth ==
    (scroll # None /\ Completed(scroll[1])) =>
        /\ Attempts(scroll[1]) \in 1..MaxScrolls
        /\ \A k \in 1..(Attempts(scroll[1]) - 1) :
               After(scroll[1], k) > Before(scroll[1], k)
        /\ Attempts(scroll[1]) < MaxScrolls =>
               After(scroll[1], Attempts(scroll[1]))
                   <= Before(scroll[1], Attempts(scroll[1]))
        /\ LastScript(scroll[1]) = "top"

\* C24, amended: a scroll_to_bottom call that completes without error has
\* made between one and MaxScrolls scroll attempts, every attempt but the
\* last saw a height different from the one before it (larger or smaller),
\* the last one saw the same height unless it was the MaxScrolls-th, and
\* the last script before the markup is read scrolls to the top.
C24_StopsOnUnchangedHeight ==
    (scroll # None /\ Completed(scroll[1])) =>
        /\ Attempts(scroll[1]) \in 1..MaxScrolls
        /\ \A k \in 1..(Attempts(scroll[1]) - 1) :
               After(scroll[1], k) # Before(scroll[1], k)
        /\ Attempts(scroll[1]) < MaxScrolls =>
               After(scroll[1], Attempts(scroll[1]))
                   = Before(scroll[1], Attempts(scroll[1]))
        /\ LastScript(scroll[1]) = "top"

\* a call that went on after a shrinking page, stopped on the second
\* attempt and handed over to the read of the markup
C24_Witness ==
    /\ scroll # None
    /\ scroll[1].pc = "read"
    /\ ~scroll[1].raised
    /\ scroll[1].heights = <<2, 1, 1>>
    /\ scroll[1].log = <<"bottom", "bottom", "top", "page_source">>

\* the page has a content region whose serialized, trimmed markup has at
\* least MinContentLen characters
LongEnough(c, page) ==
    IF ContentRegion(c, page) = None THEN FALSE
    ELSE ContentRegion(c, page)[1].len >= MinContentLen

\* C25: a step that fetches a page appends a document to the corpus exactly
\* when the page's resolved content region exists and its serialized,
\* trimmed markup has at least MinContentLen characters (MinContentLen
\* gives a document, MinContentLen - 1 does not).
C25_DocumentIffLongEnough ==
    [][(fetched' # fetched /\ last'.html # None) =>
           ((docs' # docs) <=> LongEnough(cfg, last'.html[1]))]_vars

\* a step in which load_data of src/gemini_docs.py is called
GeminiLoads ==
    /\ request # None
    /\ request[1].server = "gemini"
    /\ ServerStart \/ GeminiReload

\* C26: load_data of src/gemini_docs.py returns True only with docs_data
\* holding the file's current contents, it returns False only with
\* docs_data left as it was, and a call made when the file is not newer
\* than the recorded time and documents are held returns False and leaves
\* docs_data as it was, whatever reloads and file modifications came
\* before.
C26_TrueIffReplaced ==
    [][GeminiLoads =>
           /\ load_result' = Some(TRUE) =>
                  /\ outfile # None
                  /\ FileKind(outfile) = "array"
                  /\ docs_data' = json_load(outfile[1])
           /\ load_result' = Some(FALSE) => docs_data' = docs_data
           /\ (outfile # None /\ mtime <= last_modified_time
                   /\ docs_data # <<>>) =>
                  /\ load_result' = Some(FALSE)
                  /\ docs_data' = docs_data]_vars

\* C27: a get_document_by_index call on a repository that holds n >= 1
\* documents never raises, answers success exactly when 1 <= index <= n,
\* and then with the document at position index of docs_data counted from
\* one (index - 1 counted from zero); 0, negative indexes and indexes
\* above n get success False.
C27_IndexOneBased ==
    [][(GetDocumentByIndex /\ docs_data # <<>>) =>
           /\ ~response'[1].raised
           /\ response'[1].success <=>
                  (1 <= request'[1].index
                       /\ request'[1].index <= Len(docs_data))
           /\ response'[1].success =>
                  response'[1].document =
                      Some(Answer(docs_data[request'[1].index]))]_vars

\* the last of two documents has been asked for and returned
C27_Witness ==
    /\ request # None /\ response # None
    /\ request[1].op = "index"
    /\ Len(docs_data) = 2
    /\ request[1].index = 2
    /\ response[1].success
    /\ response[1].document = Some(Answer(docs_data[2]))

\* index 0 has been asked of a repository that holds documents, and the
\* answer is a failure
C27_WitnessZero ==
    /\ request # None /\ response # None
    /\ request[1].op = "index"
    /\ request[1].index = 0
    /\ docs_data # <<>>
    /\ ~response[1].success /\ ~response[1].raised

\* C28: a docs://reload of the OpenAPI server whose load_data could open
\* and parse the file reports the reload with the count of documents now
\* held, and it reports that nothing changed only when the file was not
\* read.
C28_ReloadIsReported ==
    [][(request # None /\ OpenapiReload) =>
           /\ Readable => response'[1].reloaded = Some(Len(docs_data'))
           /\ response'[1].reloaded = None => ~Readable]_vars

\* C29: in every state of a run each document of the corpus has its url in
\* visited and the corpus has at most page_count documents, and every step
\* leaves the documents there are in place and unchanged: the corpus only
\* grows at its end.
C29_CorpusAppendOnly ==
    /\ [](/\ \A i \in 1..Len(docs) : docs[i].url \in visited
          /\ Len(docs) <= page_count)
    /\ [][/\ Len(docs') >= Len(docs)
          /\ SubSeq(docs', 1, Len(docs)) = docs]_vars

\* a corpus of two documents after a run in which another page was counted
\* without giving a document
C29_Witness ==
    /\ phase = "done"
    /\ Len(docs) = 2
    /\ page_count = 3
    /\ outfile = Some(json_dump(docs))

\* the URLs run passes to crawl itself
RunUrls ==
    {cfg.start_url} \cup {SeedUrls(cfg)[i] : i \in DOMAIN SeedUrls(cfg)}

\* C30: every URL that is fetched is the start URL, the URL of a seed path,
\* or a URL that has the configured host, a path under the start path or a
\* seed path, and a path the pattern matches; also when the href it came
\* from is relative.
C30_FetchedInScope ==
    [][fetched' # fetched =>
           \/ fetched'[Len(fetched')] \in RunUrls
           \/ InScope(cfg, urlparse(fetched'[Len(fetched')]))]_vars

\* C31: a fetch that is not the first of the run comes after a sleep of
\* the configured delay that was made since the fetch before it; this
\* holds for the fetches of the link loops and for the fetch of a seed
\* path, after the start URL's crawl and after another seed's.
C31_SleepBetweenFetches ==
    [][(fetched' # fetched /\ fetched # <<>>) =>
           \E k \in 1..Len(sleeps) :
               /\ sleeps[k].fetches = Len(fetched)
               /\ sleeps[k].delay = cfg.delay]_vars

\* C32: a load_data call of src/gemini_docs.py that returns False, for a
\* missing file, a file that is not newer, or a file that cannot be read or
\* parsed, leaves docs_data and last_modified_time as they were.
C32_FalseChangesNothing ==
    [][(GeminiLoads /\ load_result' = Some(FALSE)) =>
           /\ docs_data' = docs_data
           /\ last_modified_time' = last_modified_time]_vars
====
